---- MODULE Spec2Model ----
(***************************************************************************)
(* Model of the authentication / session subsystem of the offline business *)
(* application (electron/database/auth.ts, migrations.ts, app.config.ts)   *)
(* and of its backup subsystem (electron/database/backup.ts, db.ts), which *)
(* follows the authentication handlers below.                              *)
(*                                                                         *)
(* Spec follows the authentication handlers; SpecBackup the triggers of    *)
(* createBackup and the periodic timer; SpecStore createBackup between     *)
(* writes to the store; SpecRetention createBackup requests from an empty  *)
(* backup directory.                                                       *)
(*                                                                         *)
(* The main process runs one event loop.  createUser, login and            *)
(* changePassword are async functions: each runs synchronously up to an    *)
(* `await bcrypt...` and is resumed later, so the parts between two awaits *)
(* are the atomic steps and other handlers may run between them.  logout,  *)
(* validateSession and cleanupExpiredSessions are synchronous.             *)
(***************************************************************************)
EXTENDS Integers, Sequences, FiniteSets, Bags, TLC

(* ----------------------------- bounds --------------------------------- *)
\* number of async calls that may be in flight at once
NumProcs == 2
\* number of session tokens uuidv4() hands out in a run
MaxTokens == 2
\* number of async calls (createUser, login, changePassword) that reach
\* their first await in a run
MaxCalls == 2
\* number of times the clock is advanced in a run
MaxTicks == 1
\* the retention cap AppConfig.backup.maxBackups.  It is a configuration
\* value (7 as shipped); the runs take a small cap, so that pruning happens
\* after a few snapshots.
MAX_BACKUPS == 2
\* number of createBackup calls in a run
MaxCreates == 3
\* number of writes committed to the store in a run
MaxWrites == 1
\* number of interval timers setInterval hands out in a run
MaxTimers == 2
\* number of connections `new Database` opens in a run
MaxConns == 2

(* ------------------------ program constants --------------------------- *)
SALT_ROUNDS == 12
sessionExpiryDays == 30
rememberMeEnabled == TRUE
MinUsernameLength == 3
MinPasswordLength == 6
SecondsPerDay == 24 * 60 * 60
\* the separator of date and time: ' ' in SQLite's datetime('now'),
\* 'T' in Date.prototype.toISOString()  (character codes)
SpaceChar == 32
TeeChar == 84

(* ------------------------------ time ---------------------------------- *)
\* A Date value: whole seconds since the start of the run plus milliseconds.
\* The instants the clock takes: the start of the run, the instant a session
\* issued then expires, half a second after that, and the next day.
HalfSecond == [sec |-> 0, ms |-> 500]
Instants == { [sec |-> 0, ms |-> 0],
              [sec |-> sessionExpiryDays * SecondsPerDay, ms |-> 0],
              [sec |-> sessionExpiryDays * SecondsPerDay, ms |-> HalfSecond.ms],
              [sec |-> (sessionExpiryDays + 1) * SecondsPerDay, ms |-> 0] }

\* Date < Date
DateLT(a, b) == a.sec < b.sec \/ (a.sec = b.sec /\ a.ms < b.ms)
DateLE(a, b) == a = b \/ DateLT(a, b)

\* SQLite datetime('now'): 'YYYY-MM-DD HH:MM:SS' (UTC, whole seconds).
\* The text is kept as its fields: date, separator, time of day.
SqlDatetimeNow(t) == <<t.sec \div SecondsPerDay, SpaceChar, t.sec % SecondsPerDay>>

\* Date.prototype.toISOString(): 'YYYY-MM-DDTHH:MM:SS.mmmZ'
toISOString(t) == <<t.sec \div SecondsPerDay, TeeChar, t.sec % SecondsPerDay, t.ms>>

\* new Date(text) of an ISO text
ParseDate(text) == [sec |-> text[1] * SecondsPerDay + text[3], ms |-> text[4]]

\* expiresAt.setDate(expiresAt.getDate() + n)
AddDays(t, n) == [sec |-> t.sec + n * SecondsPerDay, ms |-> t.ms]

\* SQLite compares TEXT values bytewise from the left; the fields are of
\* fixed width, so the order of two texts is the lexicographic order of
\* their fields, a proper prefix being the smaller.
RECURSIVE TextLT(_, _)
TextLT(a, b) ==
  IF b = <<>> THEN FALSE
  ELSE IF a = <<>> THEN TRUE
  ELSE IF Head(a) # Head(b) THEN Head(a) < Head(b)
  ELSE TextLT(Tail(a), Tail(b))

\* SQL NULL in a TEXT column
NULL == <<>>

(* ----------------------------- strings -------------------------------- *)
\* A string is the sequence of its characters.
Lower(c) == IF c = "A" THEN "a" ELSE IF c = "B" THEN "b" ELSE IF c = "C" THEN "c" ELSE c
toLowerCase(s) == [i \in 1..Len(s) |-> Lower(s[i])]

RECURSIVE trimStart(_)
trimStart(s) == IF s # <<>> /\ Head(s) = " " THEN trimStart(Tail(s)) ELSE s
RECURSIVE trimEnd(_)
trimEnd(s) == IF s # <<>> /\ s[Len(s)] = " " THEN trimEnd(SubSeq(s, 1, Len(s) - 1)) ELSE s
trim(s) == trimEnd(trimStart(s))

\* inputs: a username that is too short, one with upper case and trailing
\* white space, and for login one that is mostly white space
ShortName == <<"a", "b">>
Usernames == { ShortName, <<"A", "b", "c", " ">> }
\* a password that is too short and two of accepted length
ShortPassword == <<"p", "w">>
Secret == <<"s", "e", "c", "r", "e", "t">>
NewPass == <<"n", "e", "w", "p", "a", "s", "s">>
SetupPasswords == {ShortPassword, Secret}
LoginPasswords == {Secret, NewPass}

\* bcrypt.hash(password, SALT_ROUNDS) and bcrypt.compare(password, hash):
\* the hash text carries the cost and a digest only the same password matches
bcryptHash(password, rounds) == [rounds |-> rounds, digest |-> password]
bcryptCompare(password, hash) == hash.digest = password

(* ------------------------------ state --------------------------------- *)
VARIABLES
  auth_user,      \* rows of table auth_user
  auth_sessions,  \* rows of table auth_sessions
  now,            \* the clock
  inflight,       \* the suspended async calls: a bag of frames, each with
                  \* the await it is suspended at, its arguments and locals
  nextToken,      \* the next value uuidv4() returns
  calls,          \* async calls suspended so far
  ticks,          \* clock advances so far
  last,           \* the step just taken: operation, arguments, returned value
  backupDir,      \* the files of BACKUP_DIR: name, mtime, content
  dirExists,      \* whether BACKUP_DIR exists
  dbFile,         \* the store file DB_PATH and its write-ahead log
  periodicBackupTimer,  \* the module variable: NoTimer or a timer handle
  timers,         \* the interval timers active in the event loop
  nextTimer,      \* the next handle setInterval returns
  history,        \* the createBackup calls made so far
  db,             \* the module variable of db.ts: NoConn or a connection
  connections,    \* the connections to the store that are open
  nextConn,       \* the next connection `new Database` returns
  app,            \* the application: platform, windows, events to deliver
  localStorage,   \* the renderer's saved session token, NoToken if none
  authContext,    \* the state of AuthProvider
  awaiting,       \* the renderer's calls to the main process in flight
  settingsPage,   \* the state of the settings page: busy flag, toast shown
  userFiles       \* the files written to paths chosen in the save dialog

authVars == <<auth_user, auth_sessions, inflight, nextToken, calls, ticks>>
backupVars == <<backupDir, dirExists, dbFile, periodicBackupTimer, timers,
                nextTimer, history>>
appVars == <<db, connections, nextConn, app>>
rendererVars == <<localStorage, authContext, awaiting, settingsPage, userFiles>>
vars == <<auth_user, auth_sessions, now, inflight, nextToken, calls, ticks,
          last, backupVars, appVars, rendererVars>>

\* a new async call may start while fewer than NumProcs are suspended
MayCall == BagCardinality(inflight) < NumProcs /\ calls < MaxCalls
Suspended(at) == {f \in BagToSet(inflight) : f.at = at}
Tokens == 1..MaxTokens

(* --------------------------- SQL statements --------------------------- *)
\* SELECT ... FROM auth_user WHERE id = 1   (the rows; .get() takes the first)
SelectUser(U) == {r \in U : r.id = 1}

\* SELECT password_hash FROM auth_user WHERE id = 1
SelectPasswordHash(U) == {[password_hash |-> r.password_hash] : r \in SelectUser(U)}

\* INSERT INTO auth_user: CHECK (id = 1), PRIMARY KEY (id), UNIQUE (username).
\* A violated constraint makes the driver throw.
InsertUser_unconstrained(U, row) == [err |-> "", table |-> U \cup {row}]
InsertUser(U, row) ==
  IF row.id # 1
    THEN [err |-> "CHECK constraint failed: id = 1", table |-> U]
  ELSE IF \E r \in U : r.id = row.id
    THEN [err |-> "UNIQUE constraint failed: auth_user.id", table |-> U]
  ELSE IF \E r \in U : r.username = row.username
    THEN [err |-> "UNIQUE constraint failed: auth_user.username", table |-> U]
  ELSE [err |-> "", table |-> U \cup {row}]

\* UPDATE auth_user SET last_login = datetime('now') WHERE id = 1
UpdateLastLogin_skipped(U, t) == U
UpdateLastLogin(U, t) ==
  {IF r.id = 1 THEN [r EXCEPT !.last_login = SqlDatetimeNow(t)] ELSE r : r \in U}

\* UPDATE auth_user SET password_hash = ? WHERE id = 1
UpdatePasswordHash(U, h) ==
  {IF r.id = 1 THEN [r EXCEPT !.password_hash = h] ELSE r : r \in U}

\* DELETE FROM auth_sessions WHERE user_id = 1
DeleteUserSessions(S) == {s \in S : s.user_id # 1}

\* DELETE FROM auth_sessions WHERE id = ?
DeleteSession_anyToken(S, token) == {s \in S : s.user_id # 1}
DeleteSession(S, token) == {s \in S : s.id # token}

\* INSERT INTO auth_sessions: PRIMARY KEY (id), FOREIGN KEY (user_id)
InsertSession(S, U, row) ==
  IF \E s \in S : s.id = row.id
    THEN [err |-> "UNIQUE constraint failed: auth_sessions.id", table |-> S]
  ELSE IF ~ \E r \in U : r.id = row.user_id
    THEN [err |-> "FOREIGN KEY constraint failed", table |-> S]
  ELSE [err |-> "", table |-> S \cup {row}]

\* DELETE FROM auth_sessions WHERE expires_at < datetime('now')
\* (a comparison of the two TEXT values)
DeleteExpiredSessions(S, t) == {s \in S : ~ TextLT(s.expires_at, SqlDatetimeNow(t))}

(* ------------------------- values exchanged --------------------------- *)
\* arguments of a call; token 0 stands for an absent token
Data(username, password, rememberMe, newPassword, token) ==
  [username |-> username, password |-> password, rememberMe |-> rememberMe,
   newPassword |-> newPassword, token |-> token]
NoData == Data(<<>>, <<>>, FALSE, <<>>, 0)

\* AuthUser of a row
AuthUserOf(r) == [id |-> r.id, username |-> r.username,
                  created_at |-> r.created_at, last_login |-> r.last_login]

\* the value a handler returns; user is empty or holds the one AuthUser
Result(success, message, sessionToken, user) ==
  [success |-> success, message |-> message, sessionToken |-> sessionToken,
   user |-> user]
Void == Result(TRUE, "", 0, {})

\* what the model remembers about a step besides the returned value
NoNote == [cause |-> "", found |-> {}, again |-> FALSE, immediate |-> FALSE,
           sessionsBefore |-> {}, tokensAtCall |-> {}, validAtCall |-> {},
           changes |-> 0]

Step(op, phase, data, out, note) ==
  [op |-> op, phase |-> phase, data |-> data, out |-> out, note |-> note]

Frame(at, data) == [at |-> at, data |-> data, user |-> {}, immediate |-> FALSE,
                    sessionsAtCall |-> {}, validAtCall |-> {}]

(* ------------------------------- Init --------------------------------- *)
\* The backup subsystem while only the authentication handlers are followed:
\* nothing in the backup directory, the store file opened, no timer.
NoTimer == 0
NoConn == 0
NoToken == 0
\* AuthProvider as constructed: the useState initial values
AuthContextInitial ==
  [isAuthenticated |-> FALSE, isLoading |-> TRUE, isSetupComplete |-> {},
   user |-> {}]
\* the settings page as constructed, no toast shown
SettingsPageInitial == [isLoadingBackup |-> FALSE, toast |-> <<>>]
\* the renderer while the main process alone is followed
RendererAtRest ==
  /\ localStorage = NoToken
  /\ authContext = AuthContextInitial
  /\ awaiting = {}
  /\ settingsPage = SettingsPageInitial
  /\ userFiles = {}
\* the application before app.whenReady() resolves
AppLaunching(platform) ==
  [platform |-> platform, ready |-> FALSE, windows |-> 0, events |-> <<>>,
   quitting |-> FALSE, exited |-> FALSE, closeDatabaseCalled |-> FALSE,
   closeBackups |-> 0, quitBy |-> "", sweepTimer |-> FALSE]
BackupAtRest ==
  /\ backupDir = {}
  /\ dirExists = FALSE
  /\ dbFile = [exists |-> TRUE, main |-> 0, wal |-> 0]
  /\ periodicBackupTimer = NoTimer
  /\ timers = {}
  /\ nextTimer = 1
  /\ history = <<>>
  /\ db = 1
  /\ connections = {1}
  /\ nextConn = 2
  /\ app = AppLaunching("linux")
  /\ RendererAtRest

\* The store file outlives the process and initDatabase() creates the tables
\* only if they do not exist: at start the store is fresh, or it holds the
\* user an earlier run provisioned.
StartInstant == [sec |-> 0, ms |-> 0]
ProvisionedEarlier ==
  [id |-> 1,
   username |-> trim(toLowerCase(<<"A", "b", "c", " ">>)),
   password_hash |-> bcryptHash(Secret, SALT_ROUNDS),
   created_at |-> SqlDatetimeNow(StartInstant),
   last_login |-> NULL]

Init ==
  /\ auth_user \in {{}, {ProvisionedEarlier}}
  /\ auth_sessions = {}
  /\ now = StartInstant
  /\ inflight = EmptyBag
  /\ nextToken = 1
  /\ calls = 0
  /\ ticks = 0
  /\ last = Step("init", "return", NoData, Void, NoNote)
  /\ BackupAtRest

\* time passes
Tick(t) ==
  /\ t \in Instants
  /\ DateLT(now, t)
  /\ ticks < MaxTicks
  /\ ticks' = ticks + 1
  /\ now' = t
  /\ last' = Step("tick", "return", NoData, Void, NoNote)
  /\ UNCHANGED <<auth_user, auth_sessions, inflight, nextToken, calls>>

(* ---------------------------- createUser ------------------------------ *)
isSetupComplete_never(U) == FALSE
isSetupComplete(U) == SelectUser(U) # {}

\* createUser up to the await: the message of the early return, "" if none
CreateUserCheck(U, data) ==
  IF isSetupComplete(U) THEN "User already exists"
  ELSE IF data.username = <<>> \/ Len(data.username) < MinUsernameLength
    THEN "Username must be at least 3 characters"
  ELSE IF data.password = <<>> \/ Len(data.password) < MinPasswordLength
    THEN "Password must be at least 6 characters"
  ELSE ""

\* data.username.toLowerCase().trim()
StoredUsername_untrimmed(username) == toLowerCase(username)
StoredUsername(username) == trim(toLowerCase(username))

CreateUserCall(username, password) ==
  LET data == Data(username, password, FALSE, <<>>, 0)
      msg == CreateUserCheck(auth_user, data)
  IN /\ MayCall
     /\ IF msg # ""
          THEN /\ last' = Step("createUser", "return", data,
                               Result(FALSE, msg, 0, {}), NoNote)
               /\ UNCHANGED <<inflight, calls>>
          ELSE /\ calls' = calls + 1
               /\ inflight' = inflight (+) SetToBag({Frame("createUser_hash", data)})
               /\ last' = Step("createUser", "await", data, Void, NoNote)
     /\ UNCHANGED <<auth_user, auth_sessions, now, ticks, nextToken>>

\* createUser after `await bcrypt.hash`: the insert, a thrown error caught
CreateUserResume(f) ==
  LET data == f.data
      row == [id |-> 1,
              username |-> StoredUsername(data.username),
              password_hash |-> bcryptHash(data.password, SALT_ROUNDS),
              created_at |-> SqlDatetimeNow(now),
              last_login |-> NULL]
      ins == InsertUser(auth_user, row)
  IN /\ f \in Suspended("createUser_hash")
     /\ auth_user' = ins.table
     /\ inflight' = inflight (-) SetToBag({f})
     /\ last' = Step("createUser", "return", data,
                     IF ins.err = ""
                       THEN Result(TRUE, "Account created successfully", 0, {})
                       ELSE Result(FALSE, "Failed to create account: " \o ins.err, 0, {}),
                     [NoNote EXCEPT !.cause = ins.err])
     /\ UNCHANGED <<auth_sessions, now, ticks, nextToken, calls>>

(* ------------------------------- login -------------------------------- *)
\* login after `await bcrypt.compare`: the message of the rejection, "" if
\* the credentials pass
LoginCheck(user, data) ==
  IF ~ bcryptCompare(data.password, user.password_hash) THEN "Invalid password"
  ELSE IF toLowerCase(user.username) # trim(toLowerCase(data.username))
    THEN "Invalid username"
  ELSE ""

\* which of the two checks rejects
LoginCause(user, data) ==
  IF ~ bcryptCompare(data.password, user.password_hash) THEN "password"
  ELSE IF toLowerCase(user.username) # trim(toLowerCase(data.username))
    THEN "username"
  ELSE ""

\* the remember-me branch: the old sessions deleted, the new one inserted
LoginIssueSession_keepOld(S, U, token, t) ==
  InsertSession(S, U,
                [id |-> token, user_id |-> 1, created_at |-> SqlDatetimeNow(t),
                 expires_at |-> toISOString(AddDays(t, sessionExpiryDays))])
LoginIssueSession(S, U, token, t) ==
  InsertSession(DeleteUserSessions(S), U,
                [id |-> token, user_id |-> 1, created_at |-> SqlDatetimeNow(t),
                 expires_at |-> toISOString(AddDays(t, sessionExpiryDays))])

\* remember-me logins in flight: each will draw a token
RECURSIVE SumCopies(_)
SumCopies(F) == IF F = {} THEN 0
                ELSE LET f == CHOOSE x \in F : TRUE
                     IN CopiesIn(f, inflight) + SumCopies(F \ {f})
TokensPromised == SumCopies({f \in Suspended("login_compare") : f.data.rememberMe})

\* sessionToken = uuidv4(): a token no earlier call has drawn
uuidv4_repeated(next) == 1
uuidv4(next) == next

\* if (data.rememberMe && AppConfig.auth.rememberMeEnabled)
LoginRemember_always(rememberMe, enabled) == TRUE
LoginRemember(rememberMe, enabled) == rememberMe /\ enabled

LoginCall(username, password, rememberMe) ==
  LET data == Data(username, password, rememberMe, <<>>, 0)
      found == SelectUser(auth_user)
      immediate == /\ last.op = "createUser" /\ last.phase = "return"
                   /\ last.out.success
                   /\ last.data.username = username
                   /\ last.data.password = password
  IN /\ MayCall
     /\ rememberMe => nextToken + TokensPromised <= MaxTokens
     /\ IF found = {}
          THEN /\ last' = Step("login", "return", data,
                               Result(FALSE, "No account exists. Please set up your account first.", 0, {}),
                               [NoNote EXCEPT !.cause = "noaccount"])
               /\ UNCHANGED <<inflight, calls>>
          ELSE /\ calls' = calls + 1
               /\ inflight' = inflight (+) SetToBag({
                    [Frame("login_compare", data) EXCEPT
                       !.user = {CHOOSE r \in found : TRUE},
                       !.immediate = immediate]})
               /\ last' = Step("login", "await", data, Void, NoNote)
     /\ UNCHANGED <<auth_user, auth_sessions, now, ticks, nextToken>>

LoginResume(f) ==
  LET data == f.data
      user == CHOOSE r \in f.user : TRUE
      msg == LoginCheck(user, data)
      note == [NoNote EXCEPT !.cause = LoginCause(user, data),
                             !.found = {user},
                             !.immediate = f.immediate,
                             !.sessionsBefore = auth_sessions]
      remember == LoginRemember(data.rememberMe, rememberMeEnabled)
      updated == UpdateLastLogin(auth_user, now)
      sessionToken == uuidv4(nextToken)
      ins == LoginIssueSession(auth_sessions, updated, sessionToken, now)
  IN /\ f \in Suspended("login_compare")
     /\ inflight' = inflight (-) SetToBag({f})
     /\ IF msg # ""
          THEN /\ last' = Step("login", "return", data, Result(FALSE, msg, 0, {}), note)
               /\ UNCHANGED <<auth_user, auth_sessions, nextToken>>
          ELSE /\ auth_user' = updated
               /\ IF remember
                    THEN /\ nextToken' = nextToken + 1
                         /\ auth_sessions' = ins.table
                         /\ last' = Step("login", "return", data,
                                IF ins.err = ""
                                  THEN Result(TRUE, "Login successful", sessionToken,
                                              {AuthUserOf(user)})
                                  ELSE Result(FALSE, "Login failed: " \o ins.err, 0, {}),
                                note)
                    ELSE /\ UNCHANGED <<auth_sessions, nextToken>>
                         /\ last' = Step("login", "return", data,
                                Result(TRUE, "Login successful", 0, {AuthUserOf(user)}),
                                note)
     /\ UNCHANGED <<now, ticks, calls>>

(* ------------------------------ logout -------------------------------- *)
\* token 0: no token given
Logout(token) ==
  /\ token \in 0..MaxTokens
  /\ auth_sessions' = IF token # 0 THEN DeleteSession(auth_sessions, token)
                                   ELSE auth_sessions
  /\ last' = Step("logout", "return", [NoData EXCEPT !.token = token],
                  Result(TRUE, "Logged out successfully", 0, {}),
                  [NoNote EXCEPT !.sessionsBefore = auth_sessions])
  /\ UNCHANGED <<auth_user, now, ticks, inflight, nextToken, calls>>

(* -------------------------- validateSession --------------------------- *)
\* SELECT ... FROM auth_sessions s JOIN auth_user u ON s.user_id = u.id
\* WHERE s.id = ?
SelectSession_anyToken(S, U, token) ==
  {j \in {[session |-> s, user |-> u] : s \in S, u \in U} :
     j.session.user_id = j.user.id}
SelectSession(S, U, token) ==
  {j \in {[session |-> s, user |-> u] : s \in S, u \in U} :
     j.session.id = token /\ j.session.user_id = j.user.id}

\* expiresAt < new Date()
IsExpired_never(expires_at, t) == FALSE
IsExpired_inclusive(expires_at, t) == DateLE(ParseDate(expires_at), t)
IsExpired(expires_at, t) == DateLT(ParseDate(expires_at), t)

\* validateSession at time t: the value returned and the session table left
ValidateOutcome(S, U, token, t) ==
  LET joined == SelectSession(S, U, token)
      j == CHOOSE x \in joined : TRUE
  IN IF joined = {}
       THEN [out |-> [valid |-> FALSE, user |-> {}], sessions |-> S]
     ELSE IF IsExpired(j.session.expires_at, t)
       THEN [out |-> [valid |-> FALSE, user |-> {}],
             sessions |-> DeleteSession(S, token)]
     ELSE [out |-> [valid |-> TRUE, user |-> {AuthUserOf(j.user)}], sessions |-> S]

ValidateSession(token) ==
  LET joined == SelectSession(auth_sessions, auth_user, token)
      res == ValidateOutcome(auth_sessions, auth_user, token, now)
      note == [NoNote EXCEPT !.found = {x.session : x \in joined},
                             !.again = /\ last.op = "validateSession"
                                       /\ last.data.token = token
                                       /\ last.note.found # {}
                                       /\ ~ last.out.valid]
  IN /\ token \in Tokens
     /\ auth_sessions' = res.sessions
     /\ last' = Step("validateSession", "return", [NoData EXCEPT !.token = token],
                     res.out, note)
     /\ UNCHANGED <<auth_user, now, ticks, inflight, nextToken, calls>>

(* --------------------------- changePassword --------------------------- *)
\* changePassword after `await bcrypt.compare`: the message of the early
\* return, "" if none
ChangePasswordCheck_lengthFirst(user, data) ==
  IF data.newPassword = <<>> \/ Len(data.newPassword) < MinPasswordLength
    THEN "New password must be at least 6 characters"
  ELSE IF ~ bcryptCompare(data.password, user.password_hash)
    THEN "Current password is incorrect"
  ELSE ""
ChangePasswordCheck(user, data) ==
  IF ~ bcryptCompare(data.password, user.password_hash)
    THEN "Current password is incorrect"
  ELSE IF data.newPassword = <<>> \/ Len(data.newPassword) < MinPasswordLength
    THEN "New password must be at least 6 characters"
  ELSE ""

\* the two statements after `await bcrypt.hash`: the tables they leave
ChangePasswordCommit_keepSessions(U, S, newPassword) ==
  [users |-> UpdatePasswordHash(U, bcryptHash(newPassword, SALT_ROUNDS)),
   sessions |-> S]
ChangePasswordCommit(U, S, newPassword) ==
  [users |-> UpdatePasswordHash(U, bcryptHash(newPassword, SALT_ROUNDS)),
   sessions |-> DeleteUserSessions(S)]

ChangePasswordCall(currentPassword, newPassword) ==
  LET data == Data(<<>>, currentPassword, FALSE, newPassword, 0)
      found == SelectPasswordHash(auth_user)
  IN /\ MayCall
     /\ IF found = {}
          THEN /\ last' = Step("changePassword", "return", data,
                               Result(FALSE, "No account exists", 0, {}), NoNote)
               /\ UNCHANGED <<inflight, calls>>
          ELSE /\ calls' = calls + 1
               /\ inflight' = inflight (+) SetToBag({
                    [Frame("changePassword_compare", data) EXCEPT
                       !.user = {CHOOSE r \in found : TRUE},
                       !.sessionsAtCall = {x.id : x \in auth_sessions},
                       !.validAtCall =
                         {t \in Tokens :
                            ValidateOutcome(auth_sessions, auth_user, t, now).out.valid}]})
               /\ last' = Step("changePassword", "await", data, Void, NoNote)
     /\ UNCHANGED <<auth_user, auth_sessions, now, ticks, nextToken>>

ChangePasswordCompared(f) ==
  LET data == f.data
      user == CHOOSE r \in f.user : TRUE
      msg == ChangePasswordCheck(user, data)
  IN /\ f \in Suspended("changePassword_compare")
     /\ IF msg # ""
          THEN /\ inflight' = inflight (-) SetToBag({f})
               /\ last' = Step("changePassword", "return", data,
                               Result(FALSE, msg, 0, {}),
                               [NoNote EXCEPT !.tokensAtCall = f.sessionsAtCall,
                                    !.validAtCall = f.validAtCall])
          ELSE /\ inflight' = (inflight (-) SetToBag({f}))
                               (+) SetToBag({[f EXCEPT !.at = "changePassword_hash"]})
               /\ last' = Step("changePassword", "await", data, Void, NoNote)
     /\ UNCHANGED <<auth_user, auth_sessions, now, ticks, nextToken, calls>>

ChangePasswordResume(f) ==
  LET data == f.data
      committed == ChangePasswordCommit(auth_user, auth_sessions, data.newPassword)
  IN /\ f \in Suspended("changePassword_hash")
     /\ auth_user' = committed.users
     /\ auth_sessions' = committed.sessions
     /\ inflight' = inflight (-) SetToBag({f})
     /\ last' = Step("changePassword", "return", data,
                     Result(TRUE, "Password changed successfully", 0, {}),
                     [NoNote EXCEPT !.tokensAtCall = f.sessionsAtCall,
                                    !.validAtCall = f.validAtCall])
     /\ UNCHANGED <<now, ticks, nextToken, calls>>

(* ----------------------- cleanupExpiredSessions ----------------------- *)
\* returns nothing; result.changes is only written to the console
CleanupExpiredSessions ==
  LET kept == DeleteExpiredSessions(auth_sessions, now)
  IN /\ auth_sessions' = kept
     /\ last' = Step("cleanupExpiredSessions", "return", NoData, Void,
                     [NoNote EXCEPT !.changes = Cardinality(auth_sessions \ kept)])
     /\ UNCHANGED <<auth_user, now, ticks, inflight, nextToken, calls>>

(* ------------------------------- Next --------------------------------- *)
Next ==
  \/ \E t \in Instants : Tick(t) /\ UNCHANGED <<backupVars, appVars, rendererVars>>
  \/ \E u \in Usernames, w \in SetupPasswords : CreateUserCall(u, w) /\ UNCHANGED <<backupVars, appVars, rendererVars>>
  \/ \E f \in BagToSet(inflight) : CreateUserResume(f) /\ UNCHANGED <<backupVars, appVars, rendererVars>>
  \/ \E u \in { <<"A", "b", "c", " ">>, <<" ", "a", " ">> }, w \in LoginPasswords, r \in BOOLEAN : LoginCall(u, w, r) /\ UNCHANGED <<backupVars, appVars, rendererVars>>
  \/ \E f \in BagToSet(inflight) : LoginResume(f) /\ UNCHANGED <<backupVars, appVars, rendererVars>>
  \/ \E t \in 0..MaxTokens : Logout(t) /\ UNCHANGED <<backupVars, appVars, rendererVars>>
  \/ \E t \in Tokens : ValidateSession(t) /\ UNCHANGED <<backupVars, appVars, rendererVars>>
  \/ \E c \in LoginPasswords, n \in {ShortPassword, NewPass} : ChangePasswordCall(c, n) /\ UNCHANGED <<backupVars, appVars, rendererVars>>
  \/ \E f \in BagToSet(inflight) : ChangePasswordCompared(f) /\ UNCHANGED <<backupVars, appVars, rendererVars>>
  \/ \E f \in BagToSet(inflight) : ChangePasswordResume(f) /\ UNCHANGED <<backupVars, appVars, rendererVars>>
  \/ CleanupExpiredSessions /\ UNCHANGED <<backupVars, appVars, rendererVars>>

Spec == Init /\ [][Next]_vars

(* ------------------------------ SpecSetup ------------------------------ *)
\* createUser alone, called with usernames that carry surrounding blanks:
\* three characters of which one or two are letters, and the user names of
\* Spec
NextSetup ==
  \/ \E t \in Instants : Tick(t) /\ UNCHANGED <<backupVars, appVars, rendererVars>>
  \/ \E u \in Usernames \cup { <<" ", "a", " ">>, <<"A", "b", " ">> }, w \in SetupPasswords :
       CreateUserCall(u, w) /\ UNCHANGED <<backupVars, appVars, rendererVars>>
  \/ \E f \in BagToSet(inflight) :
       CreateUserResume(f) /\ UNCHANGED <<backupVars, appVars, rendererVars>>

SpecSetup == Init /\ [][NextSetup]_vars

(* ======================================================================= *)
(* The backup subsystem (electron/database/backup.ts, db.ts, main.ts).     *)
(* createBackup, checkAndCreateBackupOnStartup, createBackupOnClose, the   *)
(* periodic callback, startPeriodicBackup and stopPeriodicBackup are       *)
(* synchronous: each runs to its end in one step of the event loop.        *)
(* ======================================================================= *)
periodicIntervalHours == 6
startupThresholdHours == 24
SecondsPerHour == 60 * 60
BACKUP_PREFIX == "app-backup"
BACKUP_INTERVAL == periodicIntervalHours * 60 * 60 * 1000
BACKUP_THRESHOLD == startupThresholdHours * 60 * 60 * 1000

\* Date.prototype.getTime() / Date.now(): milliseconds since the epoch; the
\* run starts after the epoch, so the value is never 0
getTime(t) == (t.sec + 1) * 1000 + t.ms

\* The instants the clock takes while the backup operations are followed:
\* the start, one second later (the same hour), the first period, the
\* startup threshold after the start, one second later, and an hour later.
BackupInstants ==
  { [sec |-> 0, ms |-> 0],
    [sec |-> 1, ms |-> 0],
    [sec |-> periodicIntervalHours * SecondsPerHour, ms |-> 0],
    [sec |-> startupThresholdHours * SecondsPerHour, ms |-> 0],
    [sec |-> startupThresholdHours * SecondsPerHour + 1, ms |-> 0],
    [sec |-> (startupThresholdHours + 1) * SecondsPerHour, ms |-> 0] }

(* ----------------------------- file names ------------------------------ *)
\* A file name is the sequence of its parts.
\* new Date().toISOString().replace(/[:.]/g, '-').split('T')[0]:
\* the text before 'T', 'YYYY-MM-DD'
FileDate(t) == toISOString(t)[1]
\* new Date().toISOString().replace(/[:.]/g, '-').split('T')[1].split('-')[0]:
\* the text after 'T' is 'HH-MM-SS-mmmZ' once ':' and '.' are replaced, and
\* its part before the first '-' is 'HH'
FileTime(t) == toISOString(t)[3] \div SecondsPerHour
\* `${BACKUP_PREFIX}_${timestamp}_${timeStr}.db`
BackupFileName(t) == <<BACKUP_PREFIX, "_", FileDate(t), "_", FileTime(t), ".db">>

startsWith(name, prefix) == name # <<>> /\ Head(name) = prefix
endsWith(name, ext) == name # <<>> /\ name[Len(name)] = ext
\* file.startsWith(BACKUP_PREFIX) && file.endsWith('.db')
IsBackupFile(name) == startsWith(name, BACKUP_PREFIX) /\ endsWith(name, ".db")

\* files of other origin that may lie in the backup directory: one that ends
\* with '.db' without the prefix, one that has the prefix and another ending
OtherFiles ==
  { [name |-> <<"notes", ".db">>, mtime |-> 0, content |-> 0],
    [name |-> <<BACKUP_PREFIX, ".db", ".bak">>, mtime |-> 0, content |-> 0] }

(* ----------------------------- file system ----------------------------- *)
\* fs.readdirSync(BACKUP_DIR).filter(...).map(... statSync ...)
BackupFiles(dir) == {f \in dir : IsBackupFile(f.name)}

\* fs.copyFileSync(DB_PATH, backupPath): the destination is created, or
\* replaced when a file of that name exists; it holds the bytes of the main
\* store file (the write-ahead log is another file) and is stamped with the
\* time of the copy
copyFileSync(dir, store, name, t) ==
  {f \in dir : f.name # name}
    \cup {[name |-> name, mtime |-> getTime(t), content |-> store.main]}

\* cleanupOldBackups: the listing sorted by b.time - a.time, newest first
\* (files of equal time in the order the directory gave them), and
\* files.slice(MAX_BACKUPS) unlinked.  The sets of files that may be kept:
KeptSets(files, max) ==
  {K \in SUBSET files :
     /\ Cardinality(K) = (IF Cardinality(files) > max THEN max
                          ELSE Cardinality(files))
     /\ \A k \in K, d \in files \ K : k.mtime >= d.mtime}

\* cleanupOldBackups(): the directory after it.  An error thrown inside
\* (unlinkSync refused) is caught and logged, and the files stay.
cleanupOldBackups_unfiltered(dir, keep, unlinkThrows) ==
  IF unlinkThrows THEN dir ELSE {f \in dir : f \in keep}
cleanupOldBackups(dir, keep, unlinkThrows) ==
  IF unlinkThrows THEN dir
  ELSE {f \in dir : ~ IsBackupFile(f.name) \/ f \in keep}

(* ----------------------------- createBackup ---------------------------- *)
BackupResult(success, message, filePath) ==
  [success |-> success, message |-> message, filePath |-> filePath]

\* what a step did to the directory: whether createBackup was called, the
\* name it derived, the files it replaced, the files it unlinked and whether
\* cleanupOldBackups caught an error; for the timer operations, the timers
\* the step cancelled
BackupNote(called, name, replaced, deleted, cleanupFailed) ==
  [called |-> called, name |-> name, replaced |-> replaced, deleted |-> deleted,
   cleanupFailed |-> cleanupFailed, cancelled |-> {}]
NoBackupNote == BackupNote(FALSE, <<>>, {}, {}, FALSE)

\* createBackup() called at time t: the directory after it, its result and
\* what it did.  copyThrows: copyFileSync throws (caught, 'Backup failed').
createBackup(dir, store, t, copyThrows, keep, unlinkThrows) ==
  LET name == BackupFileName(t)
      copied == copyFileSync(dir, store, name, t)
      after == cleanupOldBackups(copied, keep, unlinkThrows)
  IN IF ~ store.exists
       THEN [dir |-> dir,
             out |-> BackupResult(FALSE, "Database file not found", <<>>),
             note |-> BackupNote(TRUE, <<>>, {}, {}, FALSE)]
     ELSE IF copyThrows
       THEN [dir |-> dir,
             out |-> BackupResult(FALSE, "Backup failed: copy", <<>>),
             note |-> BackupNote(TRUE, name, {}, {}, FALSE)]
     ELSE [dir |-> after,
           out |-> BackupResult(TRUE, "Backup created successfully", name),
           note |-> BackupNote(TRUE, name,
                               {f \in dir : f.name = name}, copied \ after,
                               unlinkThrows)]

\* one createBackup call on behalf of operation op (ensureBackupDir first);
\* with record, the call is entered in the history.  The copy may throw when
\* it is reached, unlinkSync when there is a file to unlink.
RunCreateBackup(op, record) ==
  /\ record => Len(history) < MaxCreates
  /\ \E copyThrows \in BOOLEAN, unlinkThrows \in BOOLEAN :
       LET listed == BackupFiles(copyFileSync(backupDir, dbFile,
                                              BackupFileName(now), now))
       IN \E keep \in KeptSets(listed, MAX_BACKUPS) :
         LET r == createBackup(backupDir, dbFile, now, copyThrows, keep,
                               unlinkThrows)
         IN /\ copyThrows => dbFile.exists /\ ~ unlinkThrows
            /\ unlinkThrows => dbFile.exists /\ keep # listed
            /\ backupDir' = r.dir
            /\ last' = Step(op, "return", NoData, r.out, r.note)
            /\ history' = IF record
                            THEN Append(history,
                                        [at |-> now, name |-> r.note.name,
                                         success |-> r.out.success,
                                         pruned |-> ~ unlinkThrows])
                            ELSE history
  /\ dirExists' = TRUE

\* ipcMain.handle('backup:create')
BackupCreate ==
  /\ RunCreateBackup("backup:create", FALSE)
  /\ UNCHANGED <<dbFile, periodicBackupTimer, timers, nextTimer, now, authVars, appVars, rendererVars>>

\* createBackupOnClose(): the window's close event and before-quit
CreateBackupOnClose ==
  /\ RunCreateBackup("createBackupOnClose", FALSE)
  /\ UNCHANGED <<dbFile, periodicBackupTimer, timers, nextTimer, now, authVars, appVars, rendererVars>>

(* -------------------- checkAndCreateBackupOnStartup -------------------- *)
\* getLastBackupTime(): the mtime of the newest matching file; the empty set
\* stands for null
getLastBackupTime(dir) ==
  {f.mtime : f \in {g \in BackupFiles(dir) :
                      \A h \in BackupFiles(dir) : g.mtime >= h.mtime}}

\* `!lastBackupTime` (null, or the number 0) or
\* `Date.now() - lastBackupTime > BACKUP_THRESHOLD`
StartupBackupDue_inclusive(lastBackupTime, t) ==
  \/ lastBackupTime = {} \/ 0 \in lastBackupTime
  \/ \E m \in lastBackupTime : getTime(t) - m >= BACKUP_THRESHOLD
StartupBackupDue_noBootstrap(lastBackupTime, t) ==
  \E m \in lastBackupTime : getTime(t) - m > BACKUP_THRESHOLD
StartupBackupDue(lastBackupTime, t) ==
  \/ lastBackupTime = {} \/ 0 \in lastBackupTime
  \/ \E m \in lastBackupTime : getTime(t) - m > BACKUP_THRESHOLD

CheckAndCreateBackupOnStartup ==
  /\ IF StartupBackupDue(getLastBackupTime(backupDir), now)
       THEN RunCreateBackup("checkAndCreateBackupOnStartup", FALSE)
       ELSE /\ last' = Step("checkAndCreateBackupOnStartup", "return", NoData,
                            BackupResult(TRUE, "Recent backup exists, skipping", <<>>),
                            NoBackupNote)
            /\ dirExists' = TRUE
            /\ UNCHANGED <<backupDir, history>>
  /\ UNCHANGED <<dbFile, periodicBackupTimer, timers, nextTimer, now, authVars, appVars, rendererVars>>

\* getBackupInfo(): ensureBackupDir(), readdirSync(BACKUP_DIR) filtered to
\* the backup names, getLastBackupTime(); no try/catch, so an error raised
\* by readdirSync leaves the function as an exception.  The value returned,
\* or the empty set for an exception:
getBackupInfo(dir, readdirThrows) ==
  IF readdirThrows THEN {}
  ELSE {[lastBackupTime |-> getLastBackupTime(dir),
         backupCount |-> Cardinality(BackupFiles(dir))]}

\* ipcMain.handle('backup:getInfo')
GetBackupInfo ==
  /\ \E readdirThrows \in BOOLEAN :
       LET info == getBackupInfo(backupDir, readdirThrows)
       IN last' = Step("backup:getInfo",
                       IF info = {} THEN "throw" ELSE "return",
                       NoData, info, NoBackupNote)
  /\ dirExists' = TRUE
  /\ UNCHANGED <<backupDir, dbFile, periodicBackupTimer, timers, nextTimer,
                 history, now, authVars, appVars, rendererVars>>

(* --------------------------- periodic backup --------------------------- *)
\* setInterval(callback, BACKUP_INTERVAL) returning handle id
setInterval(T, id) == T \cup {[id |-> id, every |-> BACKUP_INTERVAL]}
clearInterval(T, id) == {tm \in T : tm.id # id}

\* startPeriodicBackup(): the timers of the event loop after it
StartTimers_noClear(T, timer, id) == setInterval(T, id)
StartTimers(T, timer, id) ==
  setInterval(IF timer # NoTimer THEN clearInterval(T, timer) ELSE T, id)

StartPeriodicBackup ==
  /\ nextTimer <= MaxTimers
  /\ timers' = StartTimers(timers, periodicBackupTimer, nextTimer)
  /\ periodicBackupTimer' = nextTimer
  /\ nextTimer' = nextTimer + 1
  /\ last' = Step("startPeriodicBackup", "return", NoData, Void,
                  [NoBackupNote EXCEPT !.cancelled = timers \ timers'])
  /\ UNCHANGED <<backupDir, dirExists, dbFile, history, now, authVars, appVars, rendererVars>>

StopPeriodicBackup ==
  /\ IF periodicBackupTimer # NoTimer
       THEN /\ timers' = clearInterval(timers, periodicBackupTimer)
            /\ periodicBackupTimer' = NoTimer
       ELSE UNCHANGED <<timers, periodicBackupTimer>>
  /\ last' = Step("stopPeriodicBackup", "return", NoData, Void,
                  [NoBackupNote EXCEPT !.cancelled = timers \ timers'])
  /\ UNCHANGED <<backupDir, dirExists, dbFile, history, nextTimer, now, authVars, appVars, rendererVars>>

\* the timers after the interval callback of timer tm got result out from
\* createBackup: the callback logs result.message and touches no timer
TimersAfterCallback_stopOnFailure(T, tm, out) ==
  IF out.success THEN T ELSE T \ {tm}
TimersAfterCallback(T, tm, out) == T

\* the interval callback of timer tm: createBackup(), the result logged.
\* When the interval has elapsed is left open.
PeriodicBackup(tm) ==
  /\ tm \in timers
  /\ RunCreateBackup("periodicBackup", FALSE)
  /\ timers' = TimersAfterCallback(timers, tm, last'.out)
  /\ UNCHANGED <<dbFile, periodicBackupTimer, nextTimer, now, authVars, appVars, rendererVars>>

(* ------------------------------ the store ------------------------------ *)
\* getDatabase(): `if (!db) db = new Database(dbPath)`, and db returned.
\* The value: the module variable after the call (the connection returned)
\* and the next connection `new Database` would hand out.
getDatabase_alwaysNew(handle, next) == [db |-> next, next |-> next + 1]
getDatabase(handle, next) ==
  IF handle = NoConn THEN [db |-> next, next |-> next + 1]
  ELSE [db |-> handle, next |-> next]

\* a statement that writes, run through getDatabase(): the store file is
\* created if missing, and in journal_mode = WAL the committed write goes to
\* the write-ahead log
CommitWrite ==
  /\ dbFile.main + dbFile.wal < MaxWrites
  /\ getDatabase(db, nextConn).db <= MaxConns
  /\ dbFile' = [dbFile EXCEPT !.exists = TRUE, !.wal = @ + 1]
  /\ db' = getDatabase(db, nextConn).db
  /\ connections' = connections \cup {db'}
  /\ nextConn' = getDatabase(db, nextConn).next
  /\ last' = Step("write", "return", NoData, Void, NoBackupNote)
  /\ UNCHANGED <<backupDir, dirExists, periodicBackupTimer, timers, nextTimer,
                 history, now, authVars, app, rendererVars>>

\* an operation that obtains the connection and only reads
GetDatabase ==
  /\ getDatabase(db, nextConn).db <= MaxConns
  /\ db' = getDatabase(db, nextConn).db
  /\ connections' = connections \cup {db'}
  /\ nextConn' = getDatabase(db, nextConn).next
  /\ dbFile' = [dbFile EXCEPT !.exists = TRUE]
  /\ last' = Step("getDatabase", "return", NoData,
                  [success |-> TRUE, message |-> "", connection |-> db'],
                  NoBackupNote)
  /\ UNCHANGED <<backupDir, dirExists, periodicBackupTimer, timers, nextTimer,
                 history, now, authVars, app, rendererVars>>

\* closeDatabase(): `if (db) { db.close(); db = null }`; closing the last
\* connection checkpoints the write-ahead log.  The module variable, the
\* open connections and the store file after the call:
closeDatabase(handle, conns, file) ==
  IF handle # NoConn
    THEN [db |-> NoConn, connections |-> conns \ {handle},
          file |-> IF conns \ {handle} = {}
                     THEN [file EXCEPT !.main = @ + file.wal, !.wal = 0]
                     ELSE file]
    ELSE [db |-> handle, connections |-> conns, file |-> file]

CloseDatabase ==
  /\ db' = closeDatabase(db, connections, dbFile).db
  /\ connections' = closeDatabase(db, connections, dbFile).connections
  /\ dbFile' = closeDatabase(db, connections, dbFile).file
  /\ last' = Step("closeDatabase", "return", NoData, Void, NoBackupNote)
  /\ UNCHANGED <<backupDir, dirExists, periodicBackupTimer, timers, nextTimer,
                 history, nextConn, now, authVars, app, rendererVars>>

\* an automatic checkpoint moves the log into the main file
Checkpoint ==
  /\ dbFile.wal > 0
  /\ dbFile' = [dbFile EXCEPT !.main = @ + dbFile.wal, !.wal = 0]
  /\ last' = Step("checkpoint", "return", NoData, Void, NoBackupNote)
  /\ UNCHANGED <<backupDir, dirExists, periodicBackupTimer, timers, nextTimer,
                 history, now, authVars, appVars, rendererVars>>

\* time passes
AdvanceClock(t) ==
  /\ t \in BackupInstants
  /\ DateLT(now, t)
  /\ now' = t
  /\ last' = Step("clock", "return", NoData, Void, NoBackupNote)
  /\ UNCHANGED <<backupVars, authVars, appVars, rendererVars>>

(* ----------------------------- SpecBackup ------------------------------ *)
\* At start the backup directory is absent, or it exists and holds files of
\* other origin; the store file is absent (never opened) or present.
InitBackup ==
  /\ auth_user = {}
  /\ auth_sessions = {}
  /\ inflight = EmptyBag
  /\ nextToken = 1
  /\ calls = 0
  /\ ticks = 0
  /\ now = StartInstant
  /\ last = Step("init", "return", NoData, Void, NoBackupNote)
  /\ backupDir \in {{}, OtherFiles}
  /\ dirExists = (backupDir # {})
  /\ dbFile \in {[exists |-> e, main |-> 0, wal |-> 0] : e \in BOOLEAN}
  /\ periodicBackupTimer = NoTimer
  /\ timers = {}
  /\ nextTimer = 1
  /\ history = <<>>
  /\ db = NoConn
  /\ connections = {}
  /\ nextConn = 1
  /\ app = AppLaunching("linux")
  /\ RendererAtRest

\* the backup operations, every trigger of createBackup and the timer; the
\* store file is not written meanwhile
NextBackup ==
  \/ \E t \in BackupInstants : AdvanceClock(t)
  \/ BackupCreate
  \/ CreateBackupOnClose
  \/ CheckAndCreateBackupOnStartup
  \/ StartPeriodicBackup
  \/ StopPeriodicBackup
  \/ \E tm \in timers : PeriodicBackup(tm)
  \/ GetBackupInfo

SpecBackup == InitBackup /\ [][NextBackup]_vars

(* ------------------------------ SpecStore ------------------------------ *)
\* writes to the store and checkpoints between the createBackup calls of the
\* request, the close hook and the startup check; no snapshot at start
InitStore ==
  /\ InitBackup
  /\ backupDir = {}

NextStore ==
  \/ \E t \in BackupInstants : AdvanceClock(t)
  \/ GetDatabase
  \/ CloseDatabase
  \/ CommitWrite
  \/ Checkpoint
  \/ BackupCreate
  \/ CreateBackupOnClose
  \/ CheckAndCreateBackupOnStartup

SpecStore == InitStore /\ [][NextStore]_vars

(* ---------------------------- SpecRetention ---------------------------- *)
\* createBackup requests alone, from an empty backup directory with the
\* store file present, each request entered in the history
InitRetention ==
  /\ InitBackup
  /\ backupDir = {}
  /\ dbFile.exists

BackupCreateRecorded ==
  /\ RunCreateBackup("backup:create", TRUE)
  /\ UNCHANGED <<dbFile, periodicBackupTimer, timers, nextTimer, now, authVars, appVars, rendererVars>>

NextRetention ==
  \/ \E t \in BackupInstants : AdvanceClock(t)
  \/ BackupCreateRecorded

SpecRetention == InitRetention /\ [][NextRetention]_vars

(* ------------------------------ SpecPrune ------------------------------ *)
\* createBackup on a backup directory that already holds snapshot files: a
\* file that carries the name of one instant and was last written at that
\* instant or a later one (a snapshot replaced within its hour, or a file
\* copied back into the directory)
PriorSnapshots ==
  { [name |-> BackupFileName(p[1]), mtime |-> getTime(p[2]), content |-> 0] :
      p \in {q \in BackupInstants \X BackupInstants : ~ DateLT(q[2], q[1])} }

InitPrune ==
  /\ auth_user = {}
  /\ auth_sessions = {}
  /\ inflight = EmptyBag
  /\ nextToken = 1
  /\ calls = 0
  /\ ticks = 0
  /\ now = StartInstant
  /\ last = Step("init", "return", NoData, Void, NoBackupNote)
  /\ backupDir \in SUBSET PriorSnapshots
  /\ Cardinality(backupDir) <= MAX_BACKUPS + 1
  /\ \A f \in backupDir, g \in backupDir : f.name = g.name => f = g
  /\ dirExists = TRUE
  /\ dbFile = [exists |-> TRUE, main |-> 0, wal |-> 0]
  /\ periodicBackupTimer = NoTimer
  /\ timers = {}
  /\ nextTimer = 1
  /\ history = <<>>
  /\ db = NoConn
  /\ connections = {}
  /\ nextConn = 1
  /\ app = AppLaunching("linux")
  /\ RendererAtRest

NextPrune ==
  \/ \E t \in BackupInstants : AdvanceClock(t)
  \/ BackupCreate

SpecPrune == InitPrune /\ [][NextPrune]_vars

(* ---------------------------- SpecLifecycle ---------------------------- *)
\* The handlers main.ts registers on the application and its window, each
\* run to completion.  app.events holds the events Electron has emitted and
\* not yet delivered; app.closeDatabaseCalled remembers that closeDatabase
\* has been called since the window was created, app.closeBackups counts
\* the createBackupOnClose calls since then, app.quitBy is what made the
\* application quit, app.sweepTimer whether the hourly
\* cleanupExpiredSessions timer has been set.

\* the results createBackup() can have at time t
CreateBackupOutcomes(dir, store, t) ==
  LET listed == BackupFiles(copyFileSync(dir, store, BackupFileName(t), t))
  IN {createBackup(dir, store, t, i[1], i[3], i[2]) :
        i \in {j \in BOOLEAN \X BOOLEAN \X KeptSets(listed, MAX_BACKUPS) :
                 /\ j[1] => store.exists /\ ~ j[2]
                 /\ j[2] => store.exists /\ j[3] # listed}}

\* stopPeriodicBackup(): the timers of the event loop after it
StopTimers(T, timer) == IF timer # NoTimer THEN clearInterval(T, timer) ELSE T

\* initDatabase(): getDatabase() and CREATE TABLE IF NOT EXISTS
initDatabase(handle, next, file) ==
  [db |-> getDatabase(handle, next).db, next |-> getDatabase(handle, next).next,
   file |-> [file EXCEPT !.exists = TRUE]]

\* the timers after the statements of whenReady that follow
\* checkAndCreateBackupOnStartup(), whose result is discarded:
\* startPeriodicBackup() runs whatever the result
TimersAfterStartup_onlyOnSuccess(T, timer, id, result) ==
  IF result.success THEN StartTimers(T, timer, id) ELSE T
TimersAfterStartup(T, timer, id, result) == StartTimers(T, timer, id)

\* app.whenReady().then(...): initDatabase, createWindow,
\* checkAndCreateBackupOnStartup, startPeriodicBackup
WhenReady ==
  /\ ~ app.ready /\ ~ app.exited
  /\ LET opened == initDatabase(db, nextConn, dbFile)
     IN /\ db' = opened.db
        /\ connections' = connections \cup {opened.db}
        /\ nextConn' = opened.next
        /\ dbFile' = opened.file
        /\ IF StartupBackupDue(getLastBackupTime(backupDir), now)
             THEN \E r \in CreateBackupOutcomes(backupDir, opened.file, now) :
                    /\ backupDir' = r.dir
                    /\ last' = Step("whenReady", "return", NoData, r.out, r.note)
             ELSE /\ backupDir' = backupDir
                  /\ last' = Step("whenReady", "return", NoData,
                                  BackupResult(TRUE, "Recent backup exists, skipping", <<>>),
                                  NoBackupNote)
  /\ dirExists' = TRUE
  /\ timers' = TimersAfterStartup(timers, periodicBackupTimer, nextTimer,
                                  last'.out)
  /\ periodicBackupTimer' = nextTimer
  /\ nextTimer' = nextTimer + 1
  /\ app' = [app EXCEPT !.ready = TRUE, !.windows = 1, !.sweepTimer = TRUE]
  /\ UNCHANGED <<history, now, authVars, rendererVars>>

\* win.on('close'): createBackupOnClose(); the window then closes, and
\* Electron emits window-all-closed for the last one unless it is quitting,
\* and exits when the last one closes during a quit
WindowClose ==
  /\ app.ready /\ ~ app.exited /\ app.windows > 0 /\ app.events = <<>>
  /\ \E r \in CreateBackupOutcomes(backupDir, dbFile, now) :
       /\ backupDir' = r.dir
       /\ last' = Step("close", "return", NoData, r.out, r.note)
  /\ dirExists' = TRUE
  /\ app' = [app EXCEPT
               !.windows = @ - 1,
               !.closeBackups = @ + 1,
               !.events = IF app.windows = 1 /\ ~ app.quitting
                            THEN <<"window-all-closed">> ELSE @,
               !.exited = app.windows = 1 /\ app.quitting]
  /\ UNCHANGED <<dbFile, periodicBackupTimer, timers, nextTimer, history, now,
                 authVars, db, connections, nextConn, rendererVars>>

\* app.on('window-all-closed'): stopPeriodicBackup(), closeDatabase(), and
\* app.quit() unless on darwin; app.quit() emits before-quit
WindowAllClosed ==
  /\ app.events # <<>> /\ Head(app.events) = "window-all-closed"
  /\ timers' = StopTimers(timers, periodicBackupTimer)
  /\ periodicBackupTimer' = NoTimer
  /\ db' = closeDatabase(db, connections, dbFile).db
  /\ connections' = closeDatabase(db, connections, dbFile).connections
  /\ dbFile' = closeDatabase(db, connections, dbFile).file
  /\ last' = Step("window-all-closed", "return", NoData, Void,
                  [NoBackupNote EXCEPT !.cancelled = timers \ timers'])
  /\ app' = [app EXCEPT
               !.closeDatabaseCalled = TRUE,
               !.quitting = app.platform # "darwin",
               !.quitBy = IF app.platform # "darwin"
                            THEN "window-all-closed" ELSE @,
               !.events = IF app.platform # "darwin"
                            THEN <<"before-quit">> ELSE <<>>]
  /\ UNCHANGED <<backupDir, dirExists, nextTimer, history, now, authVars,
                 nextConn, rendererVars>>

\* the user or the system asks the application to quit while a window is
\* open or, on darwin, with none: Electron emits before-quit and then
\* closes the windows
Quit ==
  /\ app.ready /\ ~ app.exited /\ ~ app.quitting /\ app.events = <<>>
  /\ app' = [app EXCEPT !.quitting = TRUE, !.events = <<"before-quit">>,
                        !.quitBy = "quit"]
  /\ last' = Step("quit", "return", NoData, Void, NoBackupNote)
  /\ UNCHANGED <<backupVars, now, authVars, db, connections, nextConn, rendererVars>>

\* app.on('before-quit'): createBackupOnClose(), stopPeriodicBackup(),
\* closeDatabase(); with no window left the application exits
BeforeQuit ==
  /\ app.events # <<>> /\ Head(app.events) = "before-quit"
  /\ \E r \in CreateBackupOutcomes(backupDir, dbFile, now) :
       /\ backupDir' = r.dir
       /\ last' = Step("before-quit", "return", NoData, r.out, r.note)
  /\ dirExists' = TRUE
  /\ timers' = StopTimers(timers, periodicBackupTimer)
  /\ periodicBackupTimer' = NoTimer
  /\ db' = closeDatabase(db, connections, dbFile).db
  /\ connections' = closeDatabase(db, connections, dbFile).connections
  /\ dbFile' = closeDatabase(db, connections, dbFile).file
  /\ app' = [app EXCEPT !.closeDatabaseCalled = TRUE,
                        !.closeBackups = @ + 1,
                        !.events = <<>>,
                        !.exited = app.windows = 0]
  /\ UNCHANGED <<nextTimer, history, now, authVars, nextConn, rendererVars>>

\* app.on('activate'): createWindow() when no window is open (darwin)
Activate ==
  /\ app.ready /\ ~ app.exited /\ ~ app.quitting /\ app.events = <<>>
  /\ app.platform = "darwin"
  /\ IF app.windows = 0
       THEN app' = [app EXCEPT !.windows = 1, !.closeDatabaseCalled = FALSE,
                               !.closeBackups = 0]
       ELSE app' = app
  /\ last' = Step("activate", "return", NoData, Void, NoBackupNote)
  /\ UNCHANGED <<backupVars, now, authVars, db, connections, nextConn, rendererVars>>

\* a handler that uses the store while the application runs: a request of
\* the window, or the hourly cleanupExpiredSessions timer
StoreRequest ==
  /\ app.ready /\ ~ app.exited /\ app.events = <<>>
  /\ GetDatabase

InitLifecycle ==
  /\ auth_user = {}
  /\ auth_sessions = {}
  /\ inflight = EmptyBag
  /\ nextToken = 1
  /\ calls = 0
  /\ ticks = 0
  /\ now = StartInstant
  /\ last = Step("init", "return", NoData, Void, NoBackupNote)
  /\ backupDir \in {{}, OtherFiles}
  /\ dirExists = (backupDir # {})
  /\ dbFile \in {[exists |-> e, main |-> 0, wal |-> 0] : e \in BOOLEAN}
  /\ periodicBackupTimer = NoTimer
  /\ timers = {}
  /\ nextTimer = 1
  /\ history = <<>>
  /\ db = NoConn
  /\ connections = {}
  /\ nextConn = 1
  /\ app \in {AppLaunching(p) : p \in {"linux", "darwin"}}
  /\ RendererAtRest

NextLifecycle ==
  \/ \E t \in BackupInstants : AdvanceClock(t)
  \/ WhenReady
  \/ WindowClose
  \/ WindowAllClosed
  \/ Quit
  \/ BeforeQuit
  \/ Activate
  \/ StoreRequest
  \/ \E tm \in timers : PeriodicBackup(tm)

SpecLifecycle == InitLifecycle /\ [][NextLifecycle]_vars

(* ----------------------------- SpecRenderer ---------------------------- *)
\* The renderer: AuthProvider (contexts/AuthContext.tsx), AuthGuard and the
\* manual backup of the settings page, with the main process answering each
\* call.  What the main process answers is left open among the values its
\* handlers return.

\* a call in flight: the function, the await it is suspended at, the token
\* it read from local storage, and for a manual backup the result on its way
\* back and why
Pending(call, at, savedToken) ==
  [call |-> call, at |-> at, savedToken |-> savedToken,
   result |-> [success |-> FALSE, message |-> <<>>], cause |-> ""]

\* what a renderer step was about: the saved token, the answer it handled
RendererNote(savedToken, reply, cause) ==
  [savedToken |-> savedToken, reply |-> reply, cause |-> cause]

\* AuthGuard: what is rendered for the state of the context
AuthGuard(ctx) ==
  IF ctx.isLoading THEN "Skeleton"
  ELSE IF ctx.isSetupComplete = {FALSE} THEN "SetupPage"
  ELSE IF ~ ctx.isAuthenticated THEN "LoginPage"
  ELSE "children"

\* setIsAuthenticated(false); setUser(null); setIsLoading(false)
Unauthenticated(ctx) ==
  [ctx EXCEPT !.isAuthenticated = FALSE, !.user = {}, !.isLoading = FALSE]

\* the answers of auth:checkSetup (isSetupComplete has no try/catch, so the
\* call can be rejected), auth:validateSession and auth:login
SomeUser == AuthUserOf(ProvisionedEarlier)
ValidateReplies ==
  {[threw |-> FALSE, valid |-> TRUE, user |-> {SomeUser}],
   [threw |-> FALSE, valid |-> FALSE, user |-> {}],
   [threw |-> TRUE, valid |-> FALSE, user |-> {}]}
LoginReplies ==
  {[threw |-> FALSE, success |-> TRUE, sessionToken |-> t, user |-> {SomeUser}] :
     t \in {NoToken} \cup Tokens}
  \cup {[threw |-> th, success |-> FALSE, sessionToken |-> NoToken, user |-> {}] :
          th \in BOOLEAN}

\* checkSession from the answer of checkSetup on: the context after it and
\* the token validateSession is then awaited for (NoToken: none, the
\* function is over)
checkSessionAfterSetup(ctx, storage, reply) ==
  IF reply = "throw"
    THEN [ctx |-> Unauthenticated(ctx), validate |-> NoToken]
  ELSE IF reply = "false"
    THEN [ctx |-> Unauthenticated([ctx EXCEPT !.isSetupComplete = {FALSE}]),
          validate |-> NoToken]
  ELSE IF storage # NoToken
    THEN [ctx |-> [ctx EXCEPT !.isSetupComplete = {TRUE}], validate |-> storage]
  ELSE [ctx |-> Unauthenticated([ctx EXCEPT !.isSetupComplete = {TRUE}]),
        validate |-> NoToken]

\* checkSession from the answer of validateSession on: the context and the
\* local storage after it
checkSessionAfterValidate_keepToken(ctx, storage, reply) ==
  IF ~ reply.threw /\ reply.valid /\ reply.user # {}
    THEN [ctx |-> [ctx EXCEPT !.isAuthenticated = TRUE, !.user = reply.user,
                              !.isLoading = FALSE],
          storage |-> storage]
    ELSE [ctx |-> Unauthenticated(ctx), storage |-> storage]
checkSessionAfterValidate(ctx, storage, reply) ==
  IF reply.threw
    THEN [ctx |-> Unauthenticated(ctx), storage |-> storage]
  ELSE IF reply.valid /\ reply.user # {}
    THEN [ctx |-> [ctx EXCEPT !.isAuthenticated = TRUE, !.user = reply.user,
                              !.isLoading = FALSE],
          storage |-> storage]
  ELSE [ctx |-> Unauthenticated(ctx), storage |-> NoToken]

\* SetupPage onSubmit, auth:setup having answered success: checkSession()
\* starts, up to its first await
SetupPageSubmit ==
  /\ AuthGuard(authContext) = "SetupPage"
  /\ \A f \in awaiting : f.call # "checkSession"
  /\ authContext' = [authContext EXCEPT !.isLoading = TRUE]
  /\ awaiting' = awaiting \cup {Pending("checkSession", "checkSetup", NoToken)}
  /\ last' = Step("checkSession", "await", NoData, Void,
                  RendererNote(NoToken, "", ""))
  /\ UNCHANGED <<localStorage, settingsPage, userFiles, now, authVars,
                 backupVars, appVars>>

\* checkSession resumed with the answer of checkSetup
CheckSetupReply(f, reply) ==
  /\ f \in awaiting /\ f.call = "checkSession" /\ f.at = "checkSetup"
  /\ LET r == checkSessionAfterSetup(authContext, localStorage, reply)
     IN /\ authContext' = r.ctx
        /\ awaiting' = (awaiting \ {f}) \cup
                         (IF r.validate # NoToken
                            THEN {Pending("checkSession", "validateSession",
                                          r.validate)}
                            ELSE {})
        /\ last' = Step("checkSession",
                        IF r.validate # NoToken THEN "await" ELSE "return",
                        NoData, Void,
                        RendererNote(NoToken, reply, "checkSetup"))
  /\ UNCHANGED <<localStorage, settingsPage, userFiles, now, authVars,
                 backupVars, appVars>>

\* checkSession resumed with the answer of validateSession(savedToken)
ValidateSessionReply(f, reply) ==
  /\ f \in awaiting /\ f.call = "checkSession" /\ f.at = "validateSession"
  /\ LET r == checkSessionAfterValidate(authContext, localStorage, reply)
     IN /\ authContext' = r.ctx
        /\ localStorage' = r.storage
  /\ awaiting' = awaiting \ {f}
  /\ last' = Step("checkSession", "return", NoData, Void,
                  RendererNote(f.savedToken,
                               IF reply.threw THEN "throw"
                               ELSE IF reply.valid THEN "valid" ELSE "invalid",
                               "validateSession"))
  /\ UNCHANGED <<settingsPage, userFiles, now, authVars, backupVars, appVars>>

\* login() of the context, called from the login page
LoginSubmit ==
  /\ AuthGuard(authContext) = "LoginPage"
  /\ \A f \in awaiting : f.call # "login"
  /\ awaiting' = awaiting \cup {Pending("login", "login", NoToken)}
  /\ last' = Step("login()", "await", NoData, Void, RendererNote(NoToken, "", ""))
  /\ UNCHANGED <<localStorage, authContext, settingsPage, userFiles, now,
                 authVars, backupVars, appVars>>

\* login() resumed with the answer of auth:login
LoginReply(f, reply) ==
  /\ f \in awaiting /\ f.call = "login"
  /\ awaiting' = awaiting \ {f}
  /\ IF ~ reply.threw /\ reply.success
       THEN /\ authContext' = [authContext EXCEPT !.isAuthenticated = TRUE,
                                                  !.user = reply.user]
            /\ localStorage' = IF reply.sessionToken # NoToken
                                 THEN reply.sessionToken ELSE localStorage
       ELSE UNCHANGED <<authContext, localStorage>>
  /\ last' = Step("login()", "return", NoData, Void,
                  RendererNote(NoToken,
                               IF reply.threw THEN "throw"
                               ELSE IF reply.success THEN "success" ELSE "failure",
                               ""))
  /\ UNCHANGED <<settingsPage, userFiles, now, authVars, backupVars, appVars>>

\* logout() of the context, up to its await
LogoutSubmit ==
  /\ AuthGuard(authContext) = "children"
  /\ \A f \in awaiting : f.call # "logout"
  /\ awaiting' = awaiting \cup {Pending("logout", "logout", localStorage)}
  /\ last' = Step("logout()", "await", NoData, Void,
                  RendererNote(localStorage, "", ""))
  /\ UNCHANGED <<localStorage, authContext, settingsPage, userFiles, now,
                 authVars, backupVars, appVars>>

\* logout() resumed: removeItem unless the call was rejected, and in every
\* case setIsAuthenticated(false), setUser(null)
LogoutReply(f, threw) ==
  /\ f \in awaiting /\ f.call = "logout"
  /\ awaiting' = awaiting \ {f}
  /\ localStorage' = IF threw THEN localStorage ELSE NoToken
  /\ authContext' = [authContext EXCEPT !.isAuthenticated = FALSE, !.user = {}]
  /\ last' = Step("logout()", "return", NoData, Void,
                  RendererNote(f.savedToken, IF threw THEN "throw" ELSE "", ""))
  /\ UNCHANGED <<settingsPage, userFiles, now, authVars, backupVars, appVars>>

(* createManualBackup and handleManualBackup *)
ManualResult(success, message) == [success |-> success, message |-> message]
BackupCancelled == ManualResult(FALSE, <<"Backup cancelled">>)

\* the paths the save dialog can return (the empty one: none), and the
\* messages of the errors copyFileSync raises
DialogPaths == {<<>>, <<"Documents", "/", "copy.db">>}
CopyErrors == {"EACCES", "ENOSPC"}

\* createManualBackup from the answer of the save dialog on: the files at
\* the chosen paths after it, the value returned and why.  error: the
\* message of the error copyFileSync throws, "" if it does not throw.
createManualBackupAfterDialog_defaultPath(files, store, canceled, filePath, error) ==
  IF canceled \/ filePath = <<>>
    THEN [files |-> files, out |-> BackupCancelled, cause |-> "cancelled"]
  ELSE IF error # ""
    THEN [files |-> files,
          out |-> ManualResult(FALSE, <<"Backup failed: ", error>>),
          cause |-> "failed"]
  ELSE [files |-> {f \in files : f.path # <<BACKUP_PREFIX, ".db">>}
                    \cup {[path |-> <<BACKUP_PREFIX, ".db">>,
                           content |-> store.main]},
        out |-> ManualResult(TRUE, <<"Backup saved to ", filePath>>),
        cause |-> "saved"]
createManualBackupAfterDialog(files, store, canceled, filePath, error) ==
  IF canceled \/ filePath = <<>>
    THEN [files |-> files, out |-> BackupCancelled, cause |-> "cancelled"]
  ELSE IF error # ""
    THEN [files |-> files,
          out |-> ManualResult(FALSE, <<"Backup failed: ", error>>),
          cause |-> "failed"]
  ELSE [files |-> {f \in files : f.path # filePath}
                    \cup {[path |-> filePath, content |-> store.main]},
        out |-> ManualResult(TRUE, <<"Backup saved to ", filePath>>),
        cause |-> "saved"]

\* handleManualBackup on the result: the toast it shows, <<>> for none
ToastFor_everyFailure(result) ==
  IF result.success THEN <<"success", result.message>>
  ELSE <<"error", result.message>>
ToastFor(result) ==
  IF result.success THEN <<"success", result.message>>
  ELSE IF result.message # <<"Backup cancelled">>
    THEN <<"error", result.message>>
  ELSE <<>>

\* the button of the settings page: handleManualBackup up to its await, and
\* createManualBackup in the main process up to the save dialog
HandleManualBackup ==
  /\ AuthGuard(authContext) = "children"
  /\ ~ settingsPage.isLoadingBackup
  /\ settingsPage' = [settingsPage EXCEPT !.isLoadingBackup = TRUE, !.toast = <<>>]
  /\ IF ~ dbFile.exists
       THEN /\ awaiting' = awaiting \cup
                 {[Pending("createManual", "reply", NoToken) EXCEPT
                     !.result = ManualResult(FALSE, <<"Database file not found">>),
                     !.cause = "missing"]}
            /\ last' = Step("createManualBackup", "return", NoData,
                            ManualResult(FALSE, <<"Database file not found">>),
                            RendererNote(NoToken, "", "missing"))
       ELSE /\ awaiting' = awaiting \cup {Pending("createManual", "dialog", NoToken)}
            /\ last' = Step("createManualBackup", "await", NoData, Void,
                            RendererNote(NoToken, "", ""))
  /\ UNCHANGED <<localStorage, authContext, userFiles, now, authVars,
                 backupVars, appVars>>

\* the save dialog answers and createManualBackup runs to its return
SaveDialogClosed(f, canceled, filePath, error) ==
  /\ f \in awaiting /\ f.call = "createManual" /\ f.at = "dialog"
  /\ canceled => filePath = <<>> /\ error = ""
  /\ filePath = <<>> => error = ""
  /\ LET r == createManualBackupAfterDialog(userFiles, dbFile, canceled,
                                            filePath, error)
     IN /\ userFiles' = r.files
        /\ awaiting' = (awaiting \ {f}) \cup
                         {[f EXCEPT !.at = "reply", !.result = r.out,
                                    !.cause = r.cause]}
        /\ last' = Step("createManualBackup", "return", NoData, r.out,
                        RendererNote(NoToken, "", r.cause))
  /\ UNCHANGED <<localStorage, authContext, settingsPage, now, authVars,
                 backupVars, appVars>>

\* handleManualBackup resumed with the result
ManualBackupReply(f) ==
  /\ f \in awaiting /\ f.call = "createManual" /\ f.at = "reply"
  /\ awaiting' = awaiting \ {f}
  /\ settingsPage' = [isLoadingBackup |-> FALSE, toast |-> ToastFor(f.result)]
  /\ last' = Step("handleManualBackup", "return", NoData, f.result,
                  RendererNote(NoToken, "", f.cause))
  /\ UNCHANGED <<localStorage, authContext, userFiles, now, authVars,
                 backupVars, appVars>>

\* The window has loaded: AuthProvider is mounted and its effect has called
\* checkSession, which awaits checkSetup; local storage holds the token an
\* earlier run saved, or none.
InitRenderer ==
  /\ auth_user = {}
  /\ auth_sessions = {}
  /\ inflight = EmptyBag
  /\ nextToken = 1
  /\ calls = 0
  /\ ticks = 0
  /\ now = StartInstant
  /\ last = Step("checkSession", "await", NoData, Void,
                 RendererNote(NoToken, "", ""))
  /\ backupDir = {}
  /\ dirExists = FALSE
  /\ dbFile \in {[exists |-> e, main |-> 0, wal |-> 0] : e \in BOOLEAN}
  /\ periodicBackupTimer = NoTimer
  /\ timers = {}
  /\ nextTimer = 1
  /\ history = <<>>
  /\ db = NoConn
  /\ connections = {}
  /\ nextConn = 1
  /\ app = [AppLaunching("linux") EXCEPT !.ready = TRUE, !.windows = 1]
  /\ localStorage \in {NoToken} \cup Tokens
  /\ authContext = AuthContextInitial
  /\ awaiting = {Pending("checkSession", "checkSetup", NoToken)}
  /\ settingsPage = SettingsPageInitial
  /\ userFiles = {}

NextRenderer ==
  \/ SetupPageSubmit
  \/ \E f \in awaiting, reply \in {"true", "false", "throw"} : CheckSetupReply(f, reply)
  \/ \E f \in awaiting, reply \in ValidateReplies : ValidateSessionReply(f, reply)
  \/ LoginSubmit
  \/ \E f \in awaiting, reply \in LoginReplies : LoginReply(f, reply)
  \/ LogoutSubmit
  \/ \E f \in awaiting, threw \in BOOLEAN : LogoutReply(f, threw)
  \/ HandleManualBackup
  \/ \E f \in awaiting, canceled \in BOOLEAN, filePath \in DialogPaths,
        error \in {""} \cup CopyErrors :
       SaveDialogClosed(f, canceled, filePath, error)
  \/ \E f \in awaiting : ManualBackupReply(f)

SpecRenderer == InitRenderer /\ [][NextRenderer]_vars

(* ----------------------------- SpecOverlap ----------------------------- *)
\* The settings page is shown to a signed-in user, the store is open and the
\* periodic timer runs: the manual backup of the page, the interval callback
\* and the close hook, with writes to the store and the clock in between.
InitOverlap ==
  /\ auth_user = {}
  /\ auth_sessions = {}
  /\ inflight = EmptyBag
  /\ nextToken = 1
  /\ calls = 0
  /\ ticks = 0
  /\ now = StartInstant
  /\ last = Step("init", "return", NoData, Void, NoBackupNote)
  /\ backupDir = {}
  /\ dirExists = FALSE
  /\ dbFile = [exists |-> TRUE, main |-> 0, wal |-> 0]
  /\ periodicBackupTimer = 1
  /\ timers = StartTimers({}, NoTimer, 1)
  /\ nextTimer = 2
  /\ history = <<>>
  /\ db = 1
  /\ connections = {1}
  /\ nextConn = 2
  /\ app = [AppLaunching("linux") EXCEPT !.ready = TRUE, !.windows = 1]
  /\ localStorage = NoToken
  /\ authContext = [isAuthenticated |-> TRUE, isLoading |-> FALSE,
                    isSetupComplete |-> {TRUE}, user |-> {SomeUser}]
  /\ awaiting = {}
  /\ settingsPage = SettingsPageInitial
  /\ userFiles = {}

NextOverlap ==
  \/ \E t \in BackupInstants : AdvanceClock(t)
  \/ CommitWrite
  \/ Checkpoint
  \/ \E tm \in timers : PeriodicBackup(tm)
  \/ CreateBackupOnClose
  \/ HandleManualBackup
  \/ \E f \in awaiting, canceled \in BOOLEAN, filePath \in DialogPaths,
        error \in {""} \cup CopyErrors :
       SaveDialogClosed(f, canceled, filePath, error)
  \/ \E f \in awaiting : ManualBackupReply(f)

SpecOverlap == InitOverlap /\ [][NextOverlap]_vars

(* ============================ properties ============================== *)
Returned(op) == last.op = op /\ last.phase = "return"

\* C1: after any interleaving of the steps of the handlers, table auth_user
\* holds zero or one row, and a row that exists has id 1.
SingleUserRow ==
  /\ Cardinality(auth_user) <= 1
  /\ \A r \in auth_user : r.id = 1

\* a second insert was attempted and the table's constraint refused it
SingleUserRow_witness ==
  /\ Returned("createUser")
  /\ last.note.cause = "UNIQUE constraint failed: auth_user.id"
  /\ Cardinality(auth_user) = 1

\* C2: a createUser call made while a user row exists returns 'User already
\* exists' at once, whatever its arguments, and leaves table auth_user (its
\* one row, username and password hash) as it was.
AlreadyProvisioned ==
  [][(/\ last'.op = "createUser"
      /\ inflight \sqsubseteq inflight'
      /\ auth_user # {})
       => /\ last'.phase = "return"
          /\ last'.out = Result(FALSE, "User already exists", 0, {})
          /\ auth_user' = auth_user
          /\ Cardinality(auth_user') = 1]_vars

AlreadyProvisioned_witness ==
  /\ Returned("createUser")
  /\ last.out.message = "User already exists"
  /\ last.data.username \in Usernames \ {ShortName}
  /\ Cardinality(auth_user) = 1

\* C3: the existence check of createUser is atomic with its insert: a
\* createUser call with valid arguments returns success or, when another call
\* provisioned the user, 'User already exists'.
ProvisionCheckAtomicWithInsert ==
  (Returned("createUser") /\ ~ last.out.success
     /\ Len(last.data.username) >= MinUsernameLength
     /\ Len(last.data.password) >= MinPasswordLength)
    => last.out.message = "User already exists"

\* C4: a login called right after createUser accepted a (username, password)
\* pair, with the same pair, succeeds and returns the identity with id 1 and
\* the stored username, which is the trimmed lower-case form of the argument.
ProvisionThenLogin ==
  (Returned("login") /\ last.note.immediate)
    => /\ last.out.success
       /\ last.out.message = "Login successful"
       /\ Cardinality(last.out.user) = 1
       /\ \A u \in last.out.user :
            /\ u.id = 1
            /\ u.username = trim(toLowerCase(last.data.username))
            /\ \A r \in auth_user : r.username = u.username

ProvisionThenLogin_witness ==
  /\ Returned("login")
  /\ last.note.immediate
  /\ last.out.success
  /\ last.data.username # trim(toLowerCase(last.data.username))

\* C5: a login rejected for its username returns the very value that the
\* login differing only in the cause (the stored username, a wrong password)
\* returns.
LoginFailuresIndistinguishable ==
  (Returned("login") /\ last.note.cause = "username")
    => \A row \in last.note.found : \A w \in LoginPasswords :
         LET other == [last.data EXCEPT !.username = row.username, !.password = w]
         IN LoginCause(row, other) = "password"
              => Result(FALSE, LoginCheck(row, other), 0, {}) = last.out

\* C6: when changePassword returns success, every token validateSession
\* accepted at the call is rejected by validateSession, and no session row
\* that existed at the call remains.
ChangePasswordInvalidatesSessions ==
  (Returned("changePassword") /\ last.out.success)
    => /\ \A t \in last.note.validAtCall :
            /\ ~ ValidateOutcome(auth_sessions, auth_user, t, now).out.valid
            /\ \A s \in auth_sessions : s.id # t
       /\ \A s \in auth_sessions : s.id \notin last.note.tokensAtCall

ChangePasswordInvalidatesSessions_witness ==
  /\ Returned("changePassword")
  /\ last.out.success
  /\ last.note.validAtCall # {}
  /\ last.note.validAtCall \subseteq last.note.tokensAtCall

\* C7: validateSession called after expires_at has elapsed returns
\* {valid: false} and the session row is gone; a second call on the same
\* token returns {valid: false} as well.
ExpiredSessionRejected ==
  (/\ Returned("validateSession")
   /\ \/ \E s \in last.note.found : DateLT(ParseDate(s.expires_at), now)
      \/ last.note.again)
    => /\ last.out = [valid |-> FALSE, user |-> {}]
       /\ \A s \in auth_sessions : s.id # last.data.token

\* the second call on a token whose row the call before removed as expired
ExpiredSessionRejected_witness ==
  /\ Returned("validateSession")
  /\ last.note.again
  /\ ~ last.out.valid

\* C8 as claimed: a session is expired when expires_at <= now; a call at the
\* instant now = expires_at returns invalid and deletes the row.
ExpiredAtBoundary ==
  (/\ Returned("validateSession")
   /\ \E s \in last.note.found : DateLE(ParseDate(s.expires_at), now))
    => /\ ~ last.out.valid
       /\ \A s \in auth_sessions : s.id # last.data.token

\* C8 as amended: a session is expired when expires_at < now; a call on an
\* existing row returns valid and keeps the row while now <= expires_at
\* (the instant now = expires_at included), and returns invalid and deletes
\* the row once now > expires_at.
ExpiryIsStrict ==
  Returned("validateSession")
    => \A s \in last.note.found :
         /\ last.out.valid <=> ~ DateLT(ParseDate(s.expires_at), now)
         /\ s \in auth_sessions <=> last.out.valid

ExpiryIsStrict_witness ==
  /\ Returned("validateSession")
  /\ \E s \in last.note.found : ParseDate(s.expires_at) = now
  /\ last.out.valid
  /\ \E s \in auth_sessions : s.id = last.data.token

\* C9: after cleanupExpiredSessions has run at time now, no session row with
\* expires_at <= now remains.
SweepRemovesExpired ==
  Returned("cleanupExpiredSessions")
    => \A s \in auth_sessions : ~ DateLE(ParseDate(s.expires_at), now)

\* C10: after any interleaving of the steps of the handlers, table
\* auth_sessions holds at most one row.
AtMostOneSession == Cardinality(auth_sessions) <= 1

\* a remember-me login that found a session and replaced it
AtMostOneSession_witness ==
  /\ Returned("login")
  /\ last.out.success
  /\ last.out.sessionToken # 0
  /\ last.note.sessionsBefore # {}
  /\ Cardinality(auth_sessions) = 1

\* C11: every session row has expires_at equal to its created_at plus
\* sessionExpiryDays, and when a login has just inserted a row its expires_at
\* is strictly later than the current time.
SessionExpiryExact ==
  /\ \A s \in auth_sessions :
       LET created == [sec |-> s.created_at[1] * SecondsPerDay + s.created_at[3],
                       ms |-> 0]
       IN ParseDate(s.expires_at) = AddDays(created, sessionExpiryDays)
  /\ (Returned("login") /\ last.out.sessionToken # 0)
       => \A s \in auth_sessions :
            s.id = last.out.sessionToken => DateLT(now, ParseDate(s.expires_at))

(* ------------------------- backup properties --------------------------- *)
\* createBackup was called in the step just taken and returned success
CreateBackupSucceeded == last.note.called /\ last.out.success

\* C12: after every createBackup call that returns success (startup check,
\* periodic callback, close hook or backup:create), at most MAX_BACKUPS files
\* of the backup directory match the backup pattern.
SnapshotCountWithinCap ==
  CreateBackupSucceeded => Cardinality(BackupFiles(backupDir)) <= MAX_BACKUPS

\* C13: from an empty backup directory, after N consecutive successful
\* createBackup calls made at distinct timestamps, N > MAX_BACKUPS, exactly
\* MAX_BACKUPS snapshot files remain and they are the files produced by the
\* last MAX_BACKUPS calls.  (Calls whose pruning met an error are left out.)
LastCallsRemain ==
  LET n == Len(history)
  IN (/\ n > MAX_BACKUPS
      /\ \A i \in 1..n : history[i].success /\ history[i].pruned
      /\ \A i, j \in 1..n : i # j => history[i].at # history[j].at)
     => /\ Cardinality(BackupFiles(backupDir)) = MAX_BACKUPS
        /\ {f.name : f \in BackupFiles(backupDir)}
             = {history[i].name : i \in (n - MAX_BACKUPS + 1)..n}

\* C14: no backup operation removes a file whose name does not both start
\* with the backup prefix and end with '.db': each such file present before
\* a step is present, unchanged, after it.
PruningSparesOtherFiles ==
  [][\A f \in backupDir :
       ~ (startsWith(f.name, BACKUP_PREFIX) /\ endsWith(f.name, ".db"))
         => f \in backupDir']_vars

\* pruning has just unlinked a snapshot in a directory that holds the files
\* of other origin
PruningSparesOtherFiles_witness ==
  /\ CreateBackupSucceeded
  /\ last.note.deleted # {}
  /\ OtherFiles \subseteq backupDir

\* C15: any two createBackup calls made at different clock seconds derive
\* different file names.
NamesDifferBySecond ==
  \A i, j \in 1..Len(history) :
    (/\ history[i].name # <<>> /\ history[j].name # <<>>
     /\ history[i].at.sec # history[j].at.sec)
      => history[i].name # history[j].name

\* C16: a snapshot file is immutable once written: over every step, each
\* snapshot of the backup directory either is still there with the content
\* it had, or is gone because retention pruning unlinked it.
SnapshotImmutable ==
  [][\A f \in BackupFiles(backupDir) :
       \/ \E g \in backupDir' : g.name = f.name /\ g.content = f.content
       \/ /\ \A g \in backupDir' : g.name # f.name
          /\ f \in last'.note.deleted]_vars

\* C17: the snapshot a successful createBackup has just written holds every
\* write committed to the store before the call returned, those still in
\* the write-ahead log included.
SnapshotReflectsCommitted ==
  CreateBackupSucceeded
    => \A f \in backupDir :
         f.name = last.note.name => f.content = dbFile.main + dbFile.wal

BootstrapGuarantee ==
  (last.op = "checkAndCreateBackupOnStartup" /\ last.out.success)
    => BackupFiles(backupDir) # {}

\* the check has just created the first snapshot of the directory
BootstrapGuarantee_witness ==
  /\ last.op = "checkAndCreateBackupOnStartup"
  /\ CreateBackupSucceeded
  /\ last.note.replaced = {}
  /\ Cardinality(BackupFiles(backupDir)) = 1

\* C20: at most one periodic timer is active at any time; startPeriodicBackup
\* cancels the running timer and installs a new one, the one the module
\* variable then holds; stopPeriodicBackup leaves no timer active and, when
\* none was active, changes nothing.
AtMostOneTimer ==
  [][/\ Cardinality(timers) <= 1
     /\ Cardinality(timers') <= 1
     /\ last'.op = "startPeriodicBackup"
          => /\ \A tm \in timers : tm \notin timers'
             /\ \E tm \in timers' : /\ timers' = {tm}
                                     /\ tm.id = periodicBackupTimer'
     /\ last'.op = "stopPeriodicBackup"
          => /\ timers' = {}
             /\ periodicBackupTimer' = NoTimer
             /\ timers = {} => UNCHANGED backupVars]_vars

\* startPeriodicBackup has just replaced a running timer
AtMostOneTimer_witness ==
  /\ last.op = "startPeriodicBackup"
  /\ last.note.cancelled # {}
  /\ Cardinality(timers) = 1

\* C21: a periodic callback whose createBackup fails returns normally and
\* leaves the timer active: the callback always calls createBackup, after a
\* failure the timers are as before, and while a timer is active its
\* callback can run.
TickFailureKeepsTimer ==
  /\ [](timers # {} => ENABLED (\E tm \in timers : PeriodicBackup(tm)))
  /\ [][last'.op = "periodicBackup"
          => /\ last'.phase = "return"
             /\ last'.note.called
             /\ ~ last'.out.success
                  => timers' = timers /\ timers' # {}
                     /\ periodicBackupTimer' = periodicBackupTimer]_vars

\* a periodic callback has just failed and its timer is active
TickFailureKeepsTimer_witness ==
  /\ last.op = "periodicBackup"
  /\ ~ last.out.success
  /\ \E tm \in timers : tm.id = periodicBackupTimer

\* C29: the store handle is a lazily created singleton: at most one
\* connection is open and it is the module variable db; a getDatabase call
\* made while the handle is open returns that same connection and opens
\* nothing, one made while it is closed opens a connection; closeDatabase on
\* a closed handle changes nothing.
StoreHandleSingleton ==
  /\ [](/\ Cardinality(connections) <= 1
        /\ connections = IF db = NoConn THEN {} ELSE {db})
  /\ [][/\ last'.op = "getDatabase"
           => /\ last'.out.connection = db'
              /\ db' # NoConn
              /\ db # NoConn => db' = db /\ connections' = connections
              /\ db = NoConn => db' \notin connections
        /\ last'.op = "closeDatabase"
           => /\ db' = NoConn
              /\ db = NoConn => /\ connections' = connections
                                /\ dbFile' = dbFile]_vars

\* getDatabase on the open handle, reopened after a closeDatabase
StoreHandleSingleton_witness ==
  /\ last.op = "getDatabase"
  /\ db > 1
  /\ connections = {db}

\* C22: in a shutdown (window close, window-all-closed, before-quit) no
\* createBackupOnClose runs once closeDatabase has been called: the handlers
\* that call createBackupOnClose, the window's close handler and before-quit,
\* never start after a closeDatabase call.
NoSnapshotAfterCloseDatabase ==
  [][last'.op \in {"close", "before-quit"} /\ last'.note.called
       => ~ app.closeDatabaseCalled]_vars

\* C24: a createBackup call made while the store file does not exist returns
\* the failure 'Database file not found' and leaves the file system as it
\* was: the files of the backup directory are the same and the directory is
\* not created.
SourceMissingLeavesFileSystem ==
  [][last'.note.called /\ ~ dbFile.exists
       => /\ last'.out = BackupResult(FALSE, "Database file not found", <<>>)
          /\ backupDir' = backupDir
          /\ dirExists' = dirExists]_vars

\* C25: no operation lets a low-level failure escape: every step of an
\* operation ends by returning a value, none ends with an exception.
NoFailureEscapes == last.phase # "throw"

LogoutRevokesOnlyToken ==
  [][last'.op = "logout"
       => LET t == last'.data.token
          IN /\ last'.out = Result(TRUE, "Logged out successfully", 0, {})
             /\ auth_sessions' \subseteq auth_sessions
             /\ \A s \in auth_sessions \ auth_sessions' : t # 0 /\ s.id = t
             /\ t # 0 => \A s \in auth_sessions' : s.id # t
             /\ (last.op = "logout" /\ last.data.token = t)
                  => auth_sessions' = auth_sessions
             /\ auth_user' = auth_user]_vars

\* a logout that found the row of its token and deleted it
LogoutRevokesOnlyToken_witness ==
  /\ last.op = "logout"
  /\ \E s \in last.note.sessionsBefore :
       /\ s.id = last.data.token
       /\ auth_sessions = last.note.sessionsBefore \ {s}

ManualBackupCancelDistinct ==
  [][/\ last'.op = "createManualBackup" /\ last'.phase = "return"
          => /\ last'.note.cause = "cancelled"
                  => /\ userFiles' = userFiles
                     /\ backupDir' = backupDir
                     /\ last'.out = BackupCancelled
             /\ last'.note.cause \in {"missing", "failed"}
                  => /\ ~ last'.out.success
                     /\ last'.out # BackupCancelled
                     /\ userFiles' = userFiles
     /\ last'.op = "handleManualBackup"
          => /\ last'.note.cause = "cancelled" => settingsPage'.toast = <<>>
             /\ last'.note.cause \in {"missing", "failed"}
                  => settingsPage'.toast = <<"error", last'.out.message>>]_vars

\* the settings page has handled a cancelled manual backup, after an earlier
\* one was saved
ManualBackupCancelDistinct_witness ==
  /\ last.op = "handleManualBackup"
  /\ last.note.cause = "cancelled"
  /\ settingsPage.toast = <<>>
  /\ userFiles # {}

\* C30: when checkSession has found a saved token and validateSession
\* reports it invalid or the call raises an error, checkSession ends with
\* isAuthenticated false, user null and the login page rendered, and for the
\* invalid token local storage holds no token; when checkSetup raises an
\* error it ends unauthenticated with user null.
InvalidSessionEndsAtLogin ==
  [][last'.op = "checkSession" /\ last'.phase = "return"
       => /\ last'.note.savedToken # NoToken
               /\ last'.note.reply \in {"invalid", "throw"}
               => /\ ~ authContext'.isAuthenticated
                  /\ authContext'.user = {}
                  /\ AuthGuard(authContext') = "LoginPage"
                  /\ last'.note.reply = "invalid" => localStorage' = NoToken
          /\ last'.note.reply = "throw"
               => /\ ~ authContext'.isAuthenticated
                  /\ authContext'.user = {}
                  /\ ~ authContext'.isLoading]_vars

\* checkSession ended on an invalid saved token
InvalidSessionEndsAtLogin_witness ==
  /\ last.op = "checkSession" /\ last.phase = "return"
  /\ last.note.savedToken # NoToken
  /\ last.note.reply = "invalid"
  /\ localStorage = NoToken
  /\ AuthGuard(authContext) = "LoginPage"

\* C39: a shutdown in which the user closes the last window and the
\* application quits calls createBackupOnClose exactly once over the close,
\* window-all-closed and before-quit handlers.
CloseBackupExactlyOnce ==
  app.exited /\ app.quitBy = "window-all-closed" => app.closeBackups = 1

\* C40: whenever a window of the running application is open (and the
\* application is not quitting), the periodic backup timer is active; so it
\* is after window-all-closed followed by activate on darwin.
TimerActiveWhileWindowOpen ==
  app.ready /\ app.windows > 0 /\ ~ app.quitting
    => /\ periodicBackupTimer # NoTimer
       /\ \E tm \in timers : tm.id = periodicBackupTimer

\* C36: startup goes on whatever the startup backup did: the startup check
\* returns a result, success or failure, and does not throw, and the
\* whenReady handler ends with the periodic backup timer and the hourly
\* session sweep timer started.
StartupProceeds ==
  [][last'.op = "whenReady"
       => /\ last'.phase = "return"
          /\ last'.out.success \in BOOLEAN
          /\ periodicBackupTimer' # NoTimer
          /\ \E tm \in timers' : tm.id = periodicBackupTimer'
          /\ app'.sweepTimer
          /\ app'.ready /\ app'.windows = 1]_vars

\* a startup whose backup failed, the timers started all the same
StartupProceeds_witness ==
  /\ last.op = "whenReady"
  /\ last.note.called
  /\ ~ last.out.success
  /\ \E tm \in timers : tm.id = periodicBackupTimer
  /\ app.sweepTimer

\* C35: every username createUser has stored is lower-case, has no leading
\* or trailing blank and has at least 3 characters.
StoredUsernameNormalized ==
  \A r \in auth_user :
    /\ r.username = toLowerCase(r.username)
    /\ r.username = trim(r.username)
    /\ Len(r.username) >= MinUsernameLength

\* C31: once changePassword has returned success, no session row exists
\* that a login issued after verifying the old password: a login that
\* inserts a session row has verified the password against the hash that is
\* stored when it inserts.
NoSessionFromOldPassword ==
  [][(/\ last'.op = "login" /\ last'.phase = "return"
      /\ last'.out.success /\ last'.out.sessionToken # 0)
       => \A verified \in last'.note.found : \A r \in auth_user :
            verified.password_hash = r.password_hash]_vars

\* C34: a successful login with rememberMe absent or false, or with
\* rememberMeEnabled switched off, returns no session token and leaves the
\* session table as it was: no row inserted, none deleted.
LoginWithoutRememberLeavesSessions ==
  /\ \A r \in BOOLEAN : ~ LoginRemember(r, FALSE) /\ ~ LoginRemember(FALSE, r)
  /\ (/\ Returned("login") /\ last.out.success
      /\ ~ (last.data.rememberMe /\ rememberMeEnabled))
       => /\ last.out.sessionToken = NoToken
          /\ auth_sessions = last.note.sessionsBefore

\* a login without remember-me succeeds while a session row exists
LoginWithoutRememberLeavesSessions_witness ==
  /\ Returned("login") /\ last.out.success
  /\ ~ last.data.rememberMe
  /\ last.out.sessionToken = NoToken
  /\ auth_sessions # {}
  /\ auth_sessions = last.note.sessionsBefore

\* C32: validateSession returns valid for a token only if a successful
\* remember-me login (username and password accepted) returned that token and
\* the row has not been removed since: every row is inserted by such a login,
\* a logout of the token, a later successful remember-me login and a
\* successful changePassword leave no such row, rows disappear in no other
\* way than by these and by a sweep or validation of an expired row; the row's
\* expires_at has not passed, and the identity returned is the current
\* auth_user row.
ValidOnlyForLiveSession ==
  /\ [](Returned("validateSession") /\ last.out.valid
         => /\ \E s \in auth_sessions :
                 /\ s.id = last.data.token
                 /\ ~ DateLT(ParseDate(s.expires_at), now)
            /\ last.out.user = {AuthUserOf(u) : u \in auth_user}
            /\ auth_user # {})
  /\ [][LET loginOk == /\ last'.op = "login" /\ last'.phase = "return"
                       /\ last'.out.success /\ last'.data.rememberMe
        IN /\ \A s \in auth_sessions' \ auth_sessions :
                /\ loginOk
                /\ last'.out.sessionToken = s.id
                /\ \A s0 \in auth_sessions : s0.id # s.id
                /\ \A verified \in last'.note.found :
                     LoginCheck(verified, last'.data) = ""
           /\ loginOk => \A s \in auth_sessions' : s.id = last'.out.sessionToken
           /\ (/\ last'.op = "logout" /\ last'.phase = "return"
               /\ last'.out.success)
                => \A s \in auth_sessions' : s.id # last'.data.token
           /\ (/\ last'.op = "changePassword" /\ last'.phase = "return"
               /\ last'.out.success)
                => auth_sessions' = {}
           /\ \A s \in auth_sessions \ auth_sessions' :
                \/ loginOk
                \/ last'.op = "logout" /\ last'.data.token = s.id
                \/ last'.op = "changePassword" /\ last'.out.success
                \/ /\ last'.op = "cleanupExpiredSessions"
                   /\ DateLT(ParseDate(s.expires_at), now)
                \/ /\ last'.op = "validateSession" /\ last'.data.token = s.id
                   /\ DateLT(ParseDate(s.expires_at), now)]_vars

\* a token is found valid after a login issued it
ValidOnlyForLiveSession_witness ==
  /\ Returned("validateSession") /\ last.out.valid
  /\ last.data.token = 2
  /\ \E s \in auth_sessions : s.id = 2

\* The session operations with one account and its correct credentials
NextSession ==
  \/ \E t \in Instants : Tick(t) /\ UNCHANGED <<backupVars, appVars, rendererVars>>
  \/ CreateUserCall(<<"A", "b", "c", " ">>, Secret) /\ UNCHANGED <<backupVars, appVars, rendererVars>>
  \/ \E f \in BagToSet(inflight) : CreateUserResume(f) /\ UNCHANGED <<backupVars, appVars, rendererVars>>
  \/ \E r \in BOOLEAN : LoginCall(<<"A", "b", "c", " ">>, Secret, r) /\ UNCHANGED <<backupVars, appVars, rendererVars>>
  \/ \E f \in BagToSet(inflight) : LoginResume(f) /\ UNCHANGED <<backupVars, appVars, rendererVars>>
  \/ \E t \in Tokens : Logout(t) /\ UNCHANGED <<backupVars, appVars, rendererVars>>
  \/ \E t \in Tokens : ValidateSession(t) /\ UNCHANGED <<backupVars, appVars, rendererVars>>
  \/ ChangePasswordCall(Secret, NewPass) /\ UNCHANGED <<backupVars, appVars, rendererVars>>
  \/ \E f \in BagToSet(inflight) : ChangePasswordCompared(f) /\ UNCHANGED <<backupVars, appVars, rendererVars>>
  \/ \E f \in BagToSet(inflight) : ChangePasswordResume(f) /\ UNCHANGED <<backupVars, appVars, rendererVars>>
  \/ CleanupExpiredSessions /\ UNCHANGED <<backupVars, appVars, rendererVars>>

SpecSession == Init /\ [][NextSession]_vars

\* C33: Deleted is terminal: once validateSession has returned invalid for a
\* token that a login has issued, every later validateSession call on that
\* token returns invalid, whatever happens in between; the clock never goes
\* back, so an expired row does not become active again.
InvalidStaysInvalid ==
  /\ [][/\ DateLE(now, now')
        /\ \A s \in auth_sessions, s1 \in auth_sessions' :
             s.id = s1.id => s = s1]_vars
  /\ \A t \in Tokens :
       []((/\ Returned("validateSession") /\ last.data.token = t
           /\ ~ last.out.valid /\ t < nextToken)
            => [](Returned("validateSession") /\ last.data.token = t
                   => ~ last.out.valid))

\* a token that was valid is validated again after it was removed
InvalidStaysInvalid_witness ==
  /\ Returned("validateSession") /\ ~ last.out.valid
  /\ last.data.token = 1
  /\ nextToken > 2
  /\ auth_sessions # {}

\* C38: the snapshot file a createBackup call has just written is not among
\* the files its pruning step deletes, whatever the backup directory held
\* before, provided no snapshot there has a modification time later than the
\* new file's.
NewSnapshotSurvivesPruning ==
  [][(/\ last'.op = "backup:create" /\ last'.out.success
      /\ \A f \in BackupFiles(backupDir) : f.mtime <= getTime(now))
       => \A d \in last'.note.deleted : d.name # last'.note.name]_vars

\* C37: a createBackup run by the interval callback or the close hook while
\* createManualBackup is suspended at its save dialog returns its own result,
\* writes its snapshot and prunes to MAX_BACKUPS as it does otherwise, and
\* leaves the suspended call, the page and the user's files alone; the manual
\* backup, once a destination is confirmed, returns its own result, leaves
\* the backup directory alone and has written the store's main file to the
\* chosen path.
BackupOverlapTolerated ==
  [][/\ (/\ \E f \in awaiting : f.call = "createManual" /\ f.at = "dialog"
         /\ last'.op \in {"periodicBackup", "createBackupOnClose"})
          => /\ last'.phase = "return"
             /\ awaiting' = awaiting
             /\ userFiles' = userFiles
             /\ settingsPage' = settingsPage
             /\ ~ last'.out.success => backupDir' = backupDir
             /\ last'.out.success
                  => /\ last'.out.filePath = BackupFileName(now)
                     /\ \E b \in backupDir' :
                          /\ b.name = BackupFileName(now)
                          /\ b.mtime = getTime(now)
                          /\ b.content = dbFile.main
                     /\ ~ last'.note.cleanupFailed
                          => Cardinality(BackupFiles(backupDir')) <= MAX_BACKUPS
                     /\ \A d \in last'.note.deleted, k \in BackupFiles(backupDir') :
                          d.mtime <= k.mtime
     /\ (/\ last'.op = "createManualBackup" /\ last'.phase = "return"
         /\ last'.note.cause = "saved")
          => /\ backupDir' = backupDir
             /\ timers' = timers
             /\ last'.out.success
             /\ \E path \in DialogPaths \ {<<>>} :
                  /\ last'.out.message = <<"Backup saved to ", path>>
                  /\ \E u \in userFiles' :
                       u.path = path /\ u.content = dbFile.main
                  /\ \A u \in userFiles' : u.path = path => u.content = dbFile.main]_vars

\* the interval callback has written and pruned while the manual backup
\* waits at its dialog
BackupOverlapTolerated_witness ==
  /\ last.op = "periodicBackup"
  /\ last.out.success
  /\ last.note.deleted # {}
  /\ \E f \in awaiting : f.call = "createManual" /\ f.at = "dialog"

====
